---- MODULE Spec2Model ----
(***************************************************************************)
(* The rule core of particlz: board storage, beam targeting, the movement  *)
(* solver (gather / prune / drag) and the support analysis, translated     *)
(* from src/src/model/*.rs.                                                *)
(***************************************************************************)
EXTENDS Integers, Sequences, FiniteSets, TLC

(***************************************************************************)
(* Bounds                                                                  *)
(***************************************************************************)
\* moves played in a row from a drawn board
MaxMoves == 1

(***************************************************************************)
(* Enumerations (src/src/model.rs, src/src/model/element.rs)               *)
(***************************************************************************)
\* enum Direction, in declaration order (the order Direction::iter and EnumSet use)
Directions == <<"Up", "Left", "Down", "Right">>

DirectionSet == {Directions[i] : i \in 1..4}

\* enum Tint
Tints == {"White", "Green", "Yellow", "Red"}

\* enum TileKind
TileKinds == {"Platform", "Collector"}

\* enum Emitters
EmitterKinds ==
    {"Left", "Up", "Right", "Down", "LeftUp", "LeftDown", "RightUp", "RightDown",
     "LeftRight", "UpDown"}

\* Emitters::directions: the EnumSet of active directions
EmitterDirections(e) ==
    CASE e = "Left" -> {"Left"}
      [] e = "Up" -> {"Up"}
      [] e = "Right" -> {"Right"}
      [] e = "Down" -> {"Down"}
      [] e = "LeftUp" -> {"Left", "Up"}
      [] e = "LeftDown" -> {"Left", "Down"}
      [] e = "RightUp" -> {"Right", "Up"}
      [] e = "RightDown" -> {"Right", "Down"}
      [] e = "LeftRight" -> {"Left", "Right"}
      [] e = "UpDown" -> {"Up", "Down"}

\* iteration over an EnumSet<Direction>: members in declaration order
DirectionSeq(set) == SelectSeq(Directions, LAMBDA d : d \in set)

\* Direction::orientation
Orientation(d) == IF d \in {"Up", "Down"} THEN "Vertical" ELSE "Horizontal"

\* Orientation::flip
Flip(o) == IF o = "Horizontal" THEN "Vertical" ELSE "Horizontal"

(***************************************************************************)
(* Option values                                                           *)
(***************************************************************************)
\* Option<BoardCoords>::None
NoCoords == <<>>

\* Option<Tile>::None, Option<Piece>::None, Option<BeamTarget>::None
NoTile == [kind |-> "None"]

NoPiece == [kind |-> "None"]

NoTarget == [kind |-> "None"]

\* Option<Border>::None
NoBorder == "None"

\* Option<u8>::None in the solver's graph
NoRef == -1

(***************************************************************************)
(* Elements (src/src/model/element.rs)                                     *)
(***************************************************************************)
\* Tile::new
Tile(kind, tint) == [kind |-> kind, tint |-> tint]

\* Particle::new (asserts tint != White)
Particle(tint) == [kind |-> "Particle", tint |-> tint]

\* Manipulator::new: no cached target yet
Manipulator(emitters) ==
    [kind |-> "Manipulator", emitters |-> emitters,
     targets |-> [d \in DirectionSet |-> NoTarget]]

\* BeamTarget::border / BeamTarget::piece
BeamTargetBorder(coords) == [kind |-> "Border", coords |-> coords]

BeamTargetPiece(coords) == [kind |-> "Piece", coords |-> coords]

\* a set_target that keeps a target cached earlier
SetTargetOnce(m, d, target) ==
    IF m.targets[d] = NoTarget THEN [m EXCEPT !.targets[d] = target] ELSE m

\* Manipulator::set_target
SetTarget(m, d, target) == [m EXCEPT !.targets[d] = target]

\* Manipulator::iter_targets: the cached targets of the active directions
IterTargets(m) ==
    LET ds == DirectionSeq(EmitterDirections(m.emitters))
    IN [i \in 1..Len(ds) |-> m.targets[ds[i]]]

(***************************************************************************)
(* Dimensions and coordinates (src/src/model.rs)                           *)
(***************************************************************************)
Dimensions(rows, cols) == [rows |-> rows, cols |-> cols]

\* Dimensions::index
DimsIndex(dims, coords) == coords[1] * dims.cols + coords[2]

\* Dimensions::coords
DimsCoords(dims, idx) == <<idx \div dims.cols, idx % dims.cols>>

\* Dimensions::contains
DimsContains(dims, coords) == coords[1] < dims.rows /\ coords[2] < dims.cols

\* Dimensions::iter, as the set of coordinates it yields
DimsCells(dims) == {DimsCoords(dims, idx) : idx \in 0..(dims.rows * dims.cols - 1)}

\* BoardCoords::to_border_coords
ToBorderCoords(coords, d) ==
    CASE d \in {"Up", "Left"} -> coords
      [] d = "Down" -> <<coords[1] + 1, coords[2]>>
      [] d = "Right" -> <<coords[1], coords[2] + 1>>

(***************************************************************************)
(* Grid storage (src/src/model/grid.rs)                                    *)
(***************************************************************************)
\* GridMap::new: rows*cols cells, all None
GridMapNew(rows, cols, none) ==
    [dims |-> Dimensions(rows, cols), cells |-> [i \in 1..(rows * cols) |-> none]]

\* GridMap::get / get_mut: cells[row*cols+col]
MapGet(g, coords) == g.cells[DimsIndex(g.dims, coords) + 1]

\* GridMap::set
MapSet(g, coords, v) == [g EXCEPT !.cells[DimsIndex(g.dims, coords) + 1] = v]

\* GridSet::new: an empty bitset over the coordinates of dims
GridSetNew(rows, cols) == [dims |-> Dimensions(rows, cols), bits |-> {}]

\* GridSet::contains
SetContains(s, coords) == DimsIndex(s.dims, coords) \in s.bits

\* an insert that leaves the set as it was
SetInsertNothing(s, coords) == s

\* GridSet::insert
SetInsert(s, coords) == [s EXCEPT !.bits = @ \cup {DimsIndex(s.dims, coords)}]

\* a remove that leaves the set as it was
SetRemoveNothing(s, coords) == s

\* GridSet::remove
SetRemove(s, coords) == [s EXCEPT !.bits = @ \ {DimsIndex(s.dims, coords)}]

\* GridSet::is_empty
SetIsEmpty(s) == s.bits = {}

\* GridSet::iter as the set of member coordinates
SetCoords(s) == {DimsCoords(s.dims, idx) : idx \in s.bits}

(***************************************************************************)
(* Board (src/src/model/board.rs)                                          *)
(***************************************************************************)
\* Board::new
BoardNew(rows, cols) ==
    [dims |-> Dimensions(rows, cols),
     tiles |-> GridMapNew(rows, cols, NoTile),
     horz_borders |-> GridMapNew(rows + 1, cols, NoBorder),
     vert_borders |-> GridMapNew(rows, cols + 1, NoBorder),
     pieces |-> GridMapNew(rows, cols, NoPiece)]

\* Board::neighbor
Neighbor(board, coords, d) ==
    CASE d = "Up" -> IF coords[1] >= 1 THEN <<coords[1] - 1, coords[2]>> ELSE NoCoords
      [] d = "Left" -> IF coords[2] >= 1 THEN <<coords[1], coords[2] - 1>> ELSE NoCoords
      [] d = "Down" ->
            IF coords[1] + 1 < board.dims.rows THEN <<coords[1] + 1, coords[2]>> ELSE NoCoords
      [] d = "Right" ->
            IF coords[2] + 1 < board.dims.cols THEN <<coords[1], coords[2] + 1>> ELSE NoCoords

\* Board::borders
Borders(board, orientation) ==
    IF orientation = "Horizontal" THEN board.horz_borders ELSE board.vert_borders

\* the border slot of a cell in a direction (MoveSolver::get_border)
GetBorder(board, coords, d) ==
    MapGet(Borders(board, Flip(Orientation(d))), ToBorderCoords(coords, d))

RECURSIVE FindBeamTargetPieceFirst(_, _, _)
\* a ray cast that looks at the next cell's piece before the Wall in between
FindBeamTargetPieceFirst(board, coords, d) ==
    LET border_coords == ToBorderCoords(coords, d)
        next == Neighbor(board, coords, d)
    IN  IF next = NoCoords THEN BeamTargetBorder(border_coords)
        ELSE IF MapGet(board.pieces, next).kind # "None" THEN BeamTargetPiece(next)
        ELSE IF GetBorder(board, coords, d) = "Wall" THEN BeamTargetBorder(border_coords)
        ELSE FindBeamTargetPieceFirst(board, next, d)

RECURSIVE FindBeamTarget(_, _, _)
\* Board::find_beam_target: the first Wall or piece along the ray, else the edge slot
FindBeamTarget(board, coords, d) ==
    LET border_coords == ToBorderCoords(coords, d)
        next == Neighbor(board, coords, d)
    IN  IF GetBorder(board, coords, d) = "Wall" THEN BeamTargetBorder(border_coords)
        ELSE IF next = NoCoords THEN BeamTargetBorder(border_coords)
        ELSE IF MapGet(board.pieces, next).kind # "None" THEN BeamTargetPiece(next)
        ELSE FindBeamTarget(board, next, d)

RECURSIVE RetargetDirections(_, _, _, _)
\* the inner loop of retarget_beams over the active directions of one manipulator
RetargetDirections(board, coords, ds, i) ==
    IF i > Len(ds) THEN board
    ELSE LET target == FindBeamTarget(board, coords, ds[i])
             m == MapGet(board.pieces, coords)
         IN  RetargetDirections(
                 [board EXCEPT !.pieces = MapSet(@, coords, SetTarget(m, ds[i], target))],
                 coords, ds, i + 1)

RECURSIVE RetargetFrom(_, _)
\* the outer loop of retarget_beams over dims.iter()
RetargetFrom(board, idx) ==
    IF idx >= board.dims.rows * board.dims.cols THEN board
    ELSE LET coords == DimsCoords(board.dims, idx)
             piece == MapGet(board.pieces, coords)
         IN  IF piece.kind = "Manipulator"
             THEN RetargetFrom(
                      RetargetDirections(board, coords,
                          DirectionSeq(EmitterDirections(piece.emitters)), 1),
                      idx + 1)
             ELSE RetargetFrom(board, idx + 1)

\* Board::retarget_beams
RetargetBeams(board) == RetargetFrom(board, 0)

\* movement.rs get_manipulator
GetManipulator(board, coords) ==
    LET piece == MapGet(board.pieces, coords)
    IN  IF piece.kind = "Manipulator" THEN piece ELSE NoPiece

(***************************************************************************)
(* Movement solver (src/src/model/movement.rs)                             *)
(***************************************************************************)
\* `*ref_count += 1` and `*target_ref_count -= 1` on a u8
U8Inc(x) == (x + 1) % 256

U8Dec(x) == (x + 255) % 256

RECURSIVE Gather(_, _, _, _)
RECURSIVE GatherFrom(_, _, _, _)
RECURSIVE GatherTargets(_, _, _, _, _)
\* gather: count the visit (`if let Some(ref_count) = graph.get_mut(coords)
\* { *ref_count += 1 } else { graph.set(coords, 1) }`), then go on from the node
Gather(board, coords, graph, visited) ==
    LET ref_count == MapGet(graph, coords)
    IN  IF ref_count # NoRef
        THEN GatherFrom(board, coords, MapSet(graph, coords, U8Inc(ref_count)), visited)
        ELSE GatherFrom(board, coords, MapSet(graph, coords, 1), visited)

\* the rest of gather: descend through the Piece-kind targets unless the node
\* is on the current path (visited holds the on-path coordinates; the scoped
\* insert is undone on return, so only the graph is handed back)
GatherFrom(board, coords, counted, visited) ==
    LET manipulator == GetManipulator(board, coords)
    IN  IF SetContains(visited, coords) THEN counted
        ELSE IF manipulator.kind = "Manipulator"
        THEN GatherTargets(board, IterTargets(manipulator), 1, counted,
                           SetInsert(visited, coords))
        ELSE counted

\* the `for target in manipulator.iter_targets()` loop of gather
GatherTargets(board, targets, i, graph, visited) ==
    IF i > Len(targets) THEN graph
    ELSE IF targets[i].kind = "Piece"
    THEN GatherTargets(board, targets, i + 1,
                       Gather(board, targets[i].coords, graph, visited), visited)
    ELSE GatherTargets(board, targets, i + 1, graph, visited)

\* MoveSolver::new
MoveSolverNew(board, leader) ==
    [board |-> board, leader |-> leader,
     graph |-> Gather(board, leader,
                      GridMapNew(board.dims.rows, board.dims.cols, NoRef),
                      GridSetNew(board.dims.rows, board.dims.cols))]

\* should_prune without the border test
ShouldPruneNoBorder(board, graph, coords, drag_direction) ==
    LET neighbor == Neighbor(board, coords, drag_direction)
        piece == MapGet(board.pieces, coords)
    IN  IF neighbor = NoCoords THEN TRUE
        ELSE IF piece.kind = "Particle"
                /\ \/ LET tile == MapGet(board.tiles, neighbor)
                      IN  tile.kind # "None" /\ tile.tint # "White" /\ tile.tint # piece.tint
                   \/ MapGet(board.tiles, coords).kind = "Collector"
        THEN TRUE
        ELSE IF MapGet(board.pieces, neighbor).kind = "None" THEN FALSE
        ELSE MapGet(graph, neighbor) = NoRef

\* should_prune without the test of the destination's occupant
ShouldPruneAnyOccupant(board, graph, coords, drag_direction) ==
    LET neighbor == Neighbor(board, coords, drag_direction)
        piece == MapGet(board.pieces, coords)
    IN  IF GetBorder(board, coords, drag_direction) # NoBorder THEN TRUE
        ELSE IF neighbor = NoCoords THEN TRUE
        ELSE IF piece.kind = "Particle"
                /\ \/ LET tile == MapGet(board.tiles, neighbor)
                      IN  tile.kind # "None" /\ tile.tint # "White" /\ tile.tint # piece.tint
                   \/ MapGet(board.tiles, coords).kind = "Collector"
        THEN TRUE
        ELSE FALSE

\* should_prune without the test of the destination tile's tint
ShouldPruneNoTint(board, graph, coords, drag_direction) ==
    LET neighbor == Neighbor(board, coords, drag_direction)
        piece == MapGet(board.pieces, coords)
    IN  IF GetBorder(board, coords, drag_direction) # NoBorder THEN TRUE
        ELSE IF neighbor = NoCoords THEN TRUE
        ELSE IF piece.kind = "Particle" /\ MapGet(board.tiles, coords).kind = "Collector"
        THEN TRUE
        ELSE IF MapGet(board.pieces, neighbor).kind = "None" THEN FALSE
        ELSE MapGet(graph, neighbor) = NoRef

\* should_prune without the Collector test
ShouldPruneNoCollector(board, graph, coords, drag_direction) ==
    LET neighbor == Neighbor(board, coords, drag_direction)
        piece == MapGet(board.pieces, coords)
    IN  IF GetBorder(board, coords, drag_direction) # NoBorder THEN TRUE
        ELSE IF neighbor = NoCoords THEN TRUE
        ELSE IF piece.kind = "Particle"
                /\ LET tile == MapGet(board.tiles, neighbor)
                   IN  tile.kind # "None" /\ tile.tint # "White" /\ tile.tint # piece.tint
        THEN TRUE
        ELSE IF MapGet(board.pieces, neighbor).kind = "None" THEN FALSE
        ELSE MapGet(graph, neighbor) = NoRef

\* should_prune that stops at a Wall and lets a piece through a Window
ShouldPruneWallOnly(board, graph, coords, drag_direction) ==
    LET neighbor == Neighbor(board, coords, drag_direction)
        piece == MapGet(board.pieces, coords)
    IN  IF GetBorder(board, coords, drag_direction) = "Wall" THEN TRUE
        ELSE IF neighbor = NoCoords THEN TRUE
        ELSE IF piece.kind = "Particle"
                /\ \/ LET tile == MapGet(board.tiles, neighbor)
                      IN  tile.kind # "None" /\ tile.tint # "White" /\ tile.tint # piece.tint
                   \/ MapGet(board.tiles, coords).kind = "Collector"
        THEN TRUE
        ELSE IF MapGet(board.pieces, neighbor).kind = "None" THEN FALSE
        ELSE MapGet(graph, neighbor) = NoRef

\* should_prune that lets a particle onto a tile of its own tint only
ShouldPruneWhiteTint(board, graph, coords, drag_direction) ==
    LET neighbor == Neighbor(board, coords, drag_direction)
        piece == MapGet(board.pieces, coords)
    IN  IF GetBorder(board, coords, drag_direction) # NoBorder THEN TRUE
        ELSE IF neighbor = NoCoords THEN TRUE
        ELSE IF piece.kind = "Particle"
                /\ \/ LET tile == MapGet(board.tiles, neighbor)
                      IN  tile.kind # "None" /\ tile.tint # piece.tint
                   \/ MapGet(board.tiles, coords).kind = "Collector"
        THEN TRUE
        ELSE IF MapGet(board.pieces, neighbor).kind = "None" THEN FALSE
        ELSE MapGet(graph, neighbor) = NoRef

\* should_prune that treats every occupied destination as blocked
ShouldPruneOccupied(board, graph, coords, drag_direction) ==
    LET neighbor == Neighbor(board, coords, drag_direction)
        piece == MapGet(board.pieces, coords)
    IN  IF GetBorder(board, coords, drag_direction) # NoBorder THEN TRUE
        ELSE IF neighbor = NoCoords THEN TRUE
        ELSE IF piece.kind = "Particle"
                /\ \/ LET tile == MapGet(board.tiles, neighbor)
                      IN  tile.kind # "None" /\ tile.tint # "White" /\ tile.tint # piece.tint
                   \/ MapGet(board.tiles, coords).kind = "Collector"
        THEN TRUE
        ELSE MapGet(board.pieces, neighbor).kind # "None"

\* MoveSolver::should_prune: the drag-direction legality test of one node
ShouldPrune(board, graph, coords, drag_direction) ==
    LET neighbor == Neighbor(board, coords, drag_direction)
        piece == MapGet(board.pieces, coords)
    IN  IF GetBorder(board, coords, drag_direction) # NoBorder THEN TRUE
        ELSE IF neighbor = NoCoords THEN TRUE
        ELSE IF piece.kind = "Particle"
                /\ \/ LET tile == MapGet(board.tiles, neighbor)
                      IN  tile.kind # "None" /\ tile.tint # "White" /\ tile.tint # piece.tint
                   \/ MapGet(board.tiles, coords).kind = "Collector"
        THEN TRUE
        ELSE IF MapGet(board.pieces, neighbor).kind = "None" THEN FALSE
        ELSE MapGet(graph, neighbor) = NoRef

RECURSIVE ReleaseTargets(_, _, _)
\* the decrement loop of prune: every Piece-kind target still in the graph loses
\* one reference
ReleaseTargets(targets, i, graph) ==
    IF i > Len(targets) THEN graph
    ELSE IF targets[i].kind = "Piece" /\ MapGet(graph, targets[i].coords) # NoRef
    THEN ReleaseTargets(targets, i + 1,
             MapSet(graph, targets[i].coords, U8Dec(MapGet(graph, targets[i].coords))))
    ELSE ReleaseTargets(targets, i + 1, graph)

RECURSIVE PruneScan(_, _, _, _, _, _)
\* one `for coords in self.graph.dims().iter()` pass of prune, from index idx
PruneScan(board, graph, drag_direction, stop_coords, idx, pruned) ==
    IF idx >= graph.dims.rows * graph.dims.cols
    THEN [graph |-> graph, pruned |-> pruned, stopped |-> FALSE]
    ELSE LET coords == DimsCoords(graph.dims, idx)
             ref_count == MapGet(graph, coords)
         IN  IF ref_count = NoRef
             THEN PruneScan(board, graph, drag_direction, stop_coords, idx + 1, pruned)
             ELSE IF ref_count = 0 \/ ShouldPrune(board, graph, coords, drag_direction)
             THEN LET removed == MapSet(graph, coords, NoRef)
                      manipulator == GetManipulator(board, coords)
                  IN  IF stop_coords = coords
                      THEN [graph |-> removed, pruned |-> pruned, stopped |-> TRUE]
                      ELSE PruneScan(board,
                               IF manipulator.kind = "Manipulator"
                               THEN ReleaseTargets(IterTargets(manipulator), 1, removed)
                               ELSE removed,
                               drag_direction, stop_coords, idx + 1, TRUE)
             ELSE PruneScan(board, graph, drag_direction, stop_coords, idx + 1, pruned)

\* a prune that stops after its first pass
PruneOnePass(board, graph, drag_direction, stop_coords) ==
    PruneScan(board, graph, drag_direction, stop_coords, 0, FALSE).graph

RECURSIVE Prune(_, _, _, _)
\* MoveSolver::prune: passes are repeated until one removes nothing, or until
\* stop_coords is removed
Prune(board, graph, drag_direction, stop_coords) ==
    LET pass == PruneScan(board, graph, drag_direction, stop_coords, 0, FALSE)
    IN  IF pass.stopped \/ ~pass.pruned THEN pass.graph
        ELSE Prune(board, pass.graph, drag_direction, stop_coords)

\* can_move that looks the leader up without pruning first
CanMoveUnpruned(solver, d) == MapGet(solver.graph, solver.leader) # NoRef

\* MoveSolver::can_move
CanMove(solver, d) ==
    MapGet(Prune(solver.board, solver.graph, d, solver.leader), solver.leader) # NoRef

\* MoveSolver::drag: the coordinates left in the graph, as a GridSet
Drag(solver, d) ==
    LET graph == Prune(solver.board, solver.graph, d, NoCoords)
    IN  [dims |-> graph.dims,
         bits |-> {idx \in 0..(graph.dims.rows * graph.dims.cols - 1) :
                      graph.cells[idx + 1] # NoRef}]

\* Board::compute_allowed_moves
ComputeAllowedMoves(board, coords) ==
    LET solver == MoveSolverNew(board, coords)
    IN  {d \in DirectionSet : CanMove(solver, d)}

\* Board::compute_move_set
ComputeMoveSet(board, piece_coords, d) == Drag(MoveSolverNew(board, piece_coords), d)

\* Board::move_piece: take the piece at from_coords and store it at to_coords
MovePiece(board, from_coords, to_coords) ==
    LET piece == MapGet(board.pieces, from_coords)
    IN  [board EXCEPT !.pieces = MapSet(MapSet(@, from_coords, NoPiece), to_coords, piece)]

\* GridSet::for_each: the member indices in visiting order, ascending for Up and
\* Left, descending for Down and Right
RECURSIVE Ascending(_, _, _)
Ascending(bits, idx, limit) ==
    IF idx >= limit THEN <<>>
    ELSE IF idx \in bits THEN <<idx>> \o Ascending(bits, idx + 1, limit)
    ELSE Ascending(bits, idx + 1, limit)

Reverse(seq) == [i \in 1..Len(seq) |-> seq[Len(seq) + 1 - i]]

\* for_each that visits in ascending order whatever the direction
ForEachAscending(set, d) == Ascending(set.bits, 0, set.dims.rows * set.dims.cols)

ForEachOrder(set, d) ==
    LET asc == Ascending(set.bits, 0, set.dims.rows * set.dims.cols)
    IN  IF d \in {"Up", "Left"} THEN asc ELSE Reverse(asc)

RECURSIVE MoveEach(_, _, _, _, _)
\* the closure of move_pieces applied to the members in visiting order; the
\* unwrap of a missing neighbor panics
MoveEach(board, dims, order, i, d) ==
    IF i > Len(order) THEN [board |-> board, panic |-> FALSE]
    ELSE LET from_coords == DimsCoords(dims, order[i])
             to_coords == Neighbor(board, from_coords, d)
         IN  IF to_coords = NoCoords THEN [board |-> board, panic |-> TRUE]
             ELSE MoveEach(MovePiece(board, from_coords, to_coords), dims, order, i + 1, d)

\* Board::move_pieces
MovePieces(board, move_set, d) == MoveEach(board, move_set.dims, ForEachOrder(move_set, d), 1, d)

(***************************************************************************)
(* State                                                                   *)
(***************************************************************************)
VARIABLES
    board,      \* the Board the operations act on
    op,         \* the last operation performed
    leader,     \* the selected manipulator (Option<BoardCoords>)
    allowed,    \* compute_allowed_moves(leader) of the selection
    direction,  \* the direction of the last compute_move_set
    moveSet,    \* the GridSet returned by the last compute_move_set
    before,     \* the board as it was before the last move_pieces
    moves,      \* moves played so far
    solver,     \* a MoveSolver followed call by call: new (gather), then prune
    support,    \* an unsupported_pieces call followed step by step
    progress,   \* the LevelProgress of the level
    observed,   \* the last LevelProgress call and the progress before it
    beams,      \* the last beam-targeting call, its arguments and its result
    codec,      \* a pbc1::decode call followed stage by stage
    level       \* the engine Level around the board: future, past, pending fade-out

vars ==
    <<board, op, leader, allowed, direction, moveSet, before, moves, solver, support,
      progress, observed, beams, codec, level>>

\* the variables of the board-level operations
apiVars == <<op, leader, allowed, direction, moveSet, before, moves>>

(***************************************************************************)
(* Boards that Init draws from: the scenario boards of the unit tests and  *)
(* every board that differs from one of them in one element                *)
(***************************************************************************)
\* tints of the drawn particles and tiles
ParticleTints == {"Green", "Red"}

TileTints == {"White", "Green", "Red"}

PieceChoices ==
    {Particle(t) : t \in ParticleTints} \cup {Manipulator(e) : e \in EmitterKinds}

TileChoices == {Tile(k, t) : k \in TileKinds, t \in TileTints}

BorderChoices == {"Wall", "Window"}

RECURSIVE PlaceAll(_, _, _)
\* grid.set(coords, value) for every entry <<coords, value>> of a list
PlaceAll(grid, entries, i) ==
    IF i > Len(entries) THEN grid
    ELSE PlaceAll(MapSet(grid, entries[i][1], entries[i][2]), entries, i + 1)

\* tests::empty_board: a White Platform on every cell
EmptyBoard(rows, cols) ==
    [BoardNew(rows, cols) EXCEPT
        !.tiles = GridMapNew(rows, cols, Tile("Platform", "White"))]

WithPieces(b, entries) == [b EXCEPT !.pieces = PlaceAll(@, entries, 1)]

\* a manipulator whose beam reaches a two-manipulator beam cycle across a gap
SeedChain ==
    WithPieces(EmptyBoard(3, 3),
        << <<(<<0, 0>>), Manipulator("Right")>>,
           <<(<<0, 2>>), Manipulator("Down")>>,
           <<(<<1, 2>>), Manipulator("Up")>> >>)

\* a manipulator holding a particle (tests::tint_mismatch, tests::collected_particles)
SeedTrain ==
    WithPieces(EmptyBoard(3, 3),
        << <<(<<1, 0>>), Manipulator("Right")>>,
           <<(<<1, 1>>), Particle("Green")>> >>)

\* the beam ring of tests::cycles
SeedRing ==
    WithPieces(EmptyBoard(3, 3),
        << <<(<<0, 0>>), Manipulator("RightDown")>>,
           <<(<<0, 1>>), Manipulator("LeftDown")>>,
           <<(<<1, 0>>), Manipulator("RightUp")>>,
           <<(<<1, 1>>), Manipulator("LeftUp")>> >>)

SeedBoards == {SeedChain, SeedTrain, SeedRing}

\* tests::cycles: the beam ring in the middle of a 4x4 board
CyclesBoard ==
    WithPieces(EmptyBoard(4, 4),
        << <<(<<1, 1>>), Manipulator("RightDown")>>,
           <<(<<1, 2>>), Manipulator("LeftDown")>>,
           <<(<<2, 1>>), Manipulator("RightUp")>>,
           <<(<<2, 2>>), Manipulator("LeftUp")>> >>)

\* the boards that differ from b in at most one piece, tile or border slot
Variants(b) ==
    {[b EXCEPT !.pieces = MapSet(@, c, p)] :
        c \in DimsCells(b.dims), p \in PieceChoices \cup {NoPiece}}
    \cup {[b EXCEPT !.tiles = MapSet(@, c, t)] :
        c \in DimsCells(b.dims), t \in TileChoices \cup {NoTile}}
    \cup {[b EXCEPT !.horz_borders = MapSet(@, c, k)] :
        c \in DimsCells(b.horz_borders.dims), k \in BorderChoices \cup {NoBorder}}
    \cup {[b EXCEPT !.vert_borders = MapSet(@, c, k)] :
        c \in DimsCells(b.vert_borders.dims), k \in BorderChoices \cup {NoBorder}}

\* movement::tests::smoke_test: ten pieces on a 5x6 board, a Wall over (1,3)
\* and a Window over (3,4)
DragSmokeBoard ==
    [WithPieces(EmptyBoard(5, 6),
        << <<(<<1, 1>>), Manipulator("Right")>>,
           <<(<<1, 2>>), Particle("Green")>>,
           <<(<<1, 3>>), Particle("Green")>>,
           <<(<<2, 1>>), Manipulator("Up")>>,
           <<(<<2, 2>>), Manipulator("RightDown")>>,
           <<(<<2, 3>>), Manipulator("RightUp")>>,
           <<(<<2, 4>>), Particle("Green")>>,
           <<(<<3, 1>>), Manipulator("Up")>>,
           <<(<<3, 2>>), Manipulator("LeftRight")>>,
           <<(<<3, 4>>), Manipulator("Up")>> >>)
     EXCEPT !.horz_borders = MapSet(MapSet(@, <<1, 3>>, "Wall"), <<3, 4>>, "Window")]

\* every drawn board has had retarget_beams run, as the tests do before solving
InitBoards == {RetargetBeams(v) : v \in UNION {Variants(b) : b \in SeedBoards}}

\* no solver call in progress
IdleSolver ==
    [phase |-> "idle", leader |-> NoCoords, graph |-> GridMapNew(0, 0, NoRef),
     visited |-> GridSetNew(0, 0), stack |-> <<>>, direction |-> "Up",
     stop |-> NoCoords, passes |-> 0, onPathHits |-> 0]

\* no support analysis in progress
IdleSupport == [phase |-> "idle"]

\* no decode call made yet
IdleCodec == [phase |-> "idle"]

\* no beam-targeting call made yet
IdleBeams == [call |-> "none"]

RingBoards == {RetargetBeams(v) : v \in Variants(CyclesBoard)}

\* support::tests::smoke_test, second half: one tile under a Left manipulator
SmokeBoard ==
    WithPieces([BoardNew(3, 2) EXCEPT
                    !.tiles = MapSet(@, <<1, 1>>, Tile("Platform", "White"))],
        << <<(<<0, 0>>), Manipulator("RightDown")>>,
           <<(<<0, 1>>), Particle("Red")>>,
           <<(<<1, 0>>), Manipulator("UpDown")>>,
           <<(<<2, 0>>), Manipulator("RightUp")>>,
           <<(<<2, 1>>), Particle("Green")>>,
           <<(<<1, 1>>), Manipulator("Left")>> >>)

\* a 2x2 board with a tile under every cell and the beam ring on it
DenseRing ==
    WithPieces(EmptyBoard(2, 2),
        << <<(<<0, 0>>), Manipulator("RightDown")>>,
           <<(<<0, 1>>), Manipulator("LeftDown")>>,
           <<(<<1, 0>>), Manipulator("RightUp")>>,
           <<(<<1, 1>>), Manipulator("LeftUp")>> >>)

SupportBoards ==
    {RetargetBeams(v) : v \in Variants(SmokeBoard) \cup Variants(DenseRing)}

ManipulatorCoords(b) ==
    {c \in DimsCells(b.dims) : MapGet(b.pieces, c).kind = "Manipulator"}

PieceCoords(b) == {c \in DimsCells(b.dims) : MapGet(b.pieces, c).kind # "None"}

(***************************************************************************)
(* LevelProgress (src/src/model/level.rs)                                  *)
(***************************************************************************)
\* Option<LevelOutcome>::None
NoOutcome == "None"

\* the derived Ord of Option<LevelOutcome>: None first, then declaration order
OutcomeOrd(outcome) ==
    CASE outcome = NoOutcome -> 0
      [] outcome = "NoManipulatorsLeft" -> 1
      [] outcome = "ParticleLost" -> 2
      [] outcome = "Victory" -> 3

\* LevelProgress::new; `overflow` records a usize subtraction below zero (a
\* panic in a debug build, a wrap-around in a release build) and `triggered`
\* is a ghost field holding every outcome passed to update_outcome
LevelProgressNew(b) ==
    [manipulators_left |-> Cardinality(ManipulatorCoords(b)),
     uncollected_particles |->
        Cardinality({c \in PieceCoords(b) :
                        /\ MapGet(b.pieces, c).kind = "Particle"
                        /\ MapGet(b.tiles, c).kind # "Collector"}),
     outcome |-> NoOutcome,
     overflow |-> FALSE,
     triggered |-> {}]

\* an update_outcome that stores the new outcome whatever the old one was
UpdateOutcomeOverwrite(p, outcome) ==
    [p EXCEPT !.outcome = outcome, !.triggered = @ \cup {outcome}]

\* LevelProgress::update_outcome: Option::max of the old and the new outcome
UpdateOutcome(p, outcome) ==
    [p EXCEPT !.outcome = IF OutcomeOrd(outcome) >= OutcomeOrd(@) THEN outcome ELSE @,
              !.triggered = @ \cup {outcome}]

\* a particle_collected that declares Victory while particles remain
ParticleCollectedEager(p) ==
    IF p.uncollected_particles = 0 THEN [p EXCEPT !.overflow = TRUE]
    ELSE UpdateOutcome([p EXCEPT !.uncollected_particles = @ - 1], "Victory")

\* LevelProgress::particle_collected
ParticleCollected(p) ==
    IF p.uncollected_particles = 0 THEN [p EXCEPT !.overflow = TRUE]
    ELSE LET q == [p EXCEPT !.uncollected_particles = @ - 1]
         IN  IF q.uncollected_particles = 0 THEN UpdateOutcome(q, "Victory") ELSE q

\* a piece_lost that forgets the manipulator count
PieceLostUncounted(p, piece) ==
    IF piece.kind = "Particle" THEN UpdateOutcome(p, "ParticleLost") ELSE p

\* LevelProgress::piece_lost
PieceLost(p, piece) ==
    IF piece.kind = "Manipulator" /\ p.manipulators_left = 0
    THEN [p EXCEPT !.overflow = TRUE]
    ELSE LET q == IF piece.kind = "Particle" THEN UpdateOutcome(p, "ParticleLost")
                  ELSE [p EXCEPT !.manipulators_left = @ - 1]
         IN  IF q.manipulators_left = 0 THEN UpdateOutcome(q, "NoManipulatorsLeft")
             ELSE q

\* Board::remove_piece
RemovePiece(b, coords) == [b EXCEPT !.pieces = MapSet(@, coords, NoPiece)]

\* Level::new: present and future are the board, the history is empty; `fade`
\* holds the pieces of a pending FadeOut animation, `call` names the last call
\* made on the Level, and `initial` and `lost` are ghost fields: the board the
\* level was built from and the particles removed since the last restore
LevelNew(b) ==
    [future |-> b, past |-> <<>>, fade |-> GridSetNew(b.dims.rows, b.dims.cols),
     call |-> "new", initial |-> b, lost |-> 0]

\* the state after a Level is built around one of the given boards
InitWith(boards) ==
    /\ board \in boards
    /\ op = "new"
    /\ leader = NoCoords
    /\ allowed = {}
    /\ direction = "Up"
    /\ moveSet = GridSetNew(board.dims.rows, board.dims.cols)
    /\ before = board
    /\ moves = 0
    /\ solver = IdleSolver
    /\ support = IdleSupport
    /\ progress = LevelProgressNew(board)
    /\ observed = [call |-> "new", piece |-> "None", before |-> progress]
    /\ beams = IdleBeams
    /\ codec = IdleCodec
    /\ level = LevelNew(board)

Init == InitWith(InitBoards)

\* select_manipulator: focus a manipulator and compute its allowed moves
SelectManipulator(c) ==
    /\ op \in {"new", "move"}
    /\ moves < MaxMoves
    /\ c \in ManipulatorCoords(board)
    /\ leader' = c
    /\ allowed' = ComputeAllowedMoves(board, c)
    /\ op' = "select"
    /\ direction' = "Up"
    /\ moveSet' = GridSetNew(board.dims.rows, board.dims.cols)
    /\ before' = board
    /\ UNCHANGED <<board, moves, solver, support, progress, observed, beams, codec, level>>

\* Board::compute_move_set for the selected manipulator
ComputeMoveSetOp(d) ==
    /\ op = "select"
    /\ direction' = d
    /\ moveSet' = ComputeMoveSet(board, leader, d)
    /\ op' = "drag"
    /\ UNCHANGED <<board, leader, allowed, before, moves, solver, support, progress, observed, beams, codec, level>>

\* Level::prepare_move followed by update_present: move_pieces, then retarget_beams
PrepareMove ==
    /\ op = "drag"
    /\ LET moved == MovePieces(board, moveSet, direction)
       IN  /\ board' = RetargetBeams(moved.board)
           /\ op' = IF moved.panic THEN "panic" ELSE "move"
    /\ before' = board
    /\ moves' = moves + 1
    /\ UNCHANGED <<leader, allowed, direction, moveSet, solver, support, progress, observed, beams, codec, level>>

Next ==
    \/ \E c \in DimsCells(board.dims) : SelectManipulator(c)
    \/ \E d \in DirectionSet : ComputeMoveSetOp(d)
    \/ PrepareMove

Spec == Init /\ [][Next]_vars

(***************************************************************************)
(* Claims about the movement solver, checked under Spec                    *)
(***************************************************************************)
\* the nodes gather put in the graph of the selected leader
Gathered == {c \in DimsCells(board.dims) : MapGet(MoveSolverNew(board, leader).graph, c) # NoRef}

Members == SetCoords(moveSet)

\* a piece without its cached beam targets
Identity(piece) ==
    IF piece.kind = "Manipulator" THEN [kind |-> "Manipulator", emitters |-> piece.emitters]
    ELSE piece

\* a particle at c whose destination tile in direction d has another, non-White tint
TintBlocked(b, c, d) ==
    /\ MapGet(b.pieces, c).kind = "Particle"
    /\ Neighbor(b, c, d) # NoCoords
    /\ LET tile == MapGet(b.tiles, Neighbor(b, c, d))
       IN  tile.kind # "None" /\ tile.tint # "White" /\ tile.tint # MapGet(b.pieces, c).tint

\* a particle at c resting on a Collector tile
Collected(b, c) ==
    MapGet(b.pieces, c).kind = "Particle" /\ MapGet(b.tiles, c).kind = "Collector"

\* C1: a direction is in compute_allowed_moves(c) exactly when c is a member of
\* compute_move_set(c, d), for every manipulator c and every direction d
C1_AllowedIffLeaderInMoveSet ==
    op = "drag" => (direction \in allowed <=> SetContains(moveSet, leader))

\* the leader moves together with at least one other piece
C1_Witness ==
    /\ op = "drag"
    /\ direction \in allowed
    /\ SetContains(moveSet, leader)
    /\ Cardinality(moveSet.bits) >= 2

\* C2: when the direction is not allowed for the leader, compute_move_set is empty
C2_EmptyWhenNotAllowed ==
    (op = "drag" /\ direction \notin allowed) => SetIsEmpty(moveSet)

\* C3: move_pieces puts every member one cell further in the direction, leaves
\* every other piece on its cell and neither drops nor overwrites a piece
C3_MovePiecesFrame ==
    op = "move" =>
        /\ \A c \in Members :
              /\ Neighbor(before, c, direction) # NoCoords
              /\ Identity(MapGet(board.pieces, Neighbor(before, c, direction)))
                    = Identity(MapGet(before.pieces, c))
        /\ \A c \in DimsCells(board.dims) \ {Neighbor(before, m, direction) : m \in Members} :
              Identity(MapGet(board.pieces, c))
                 = IF c \in Members THEN NoPiece ELSE Identity(MapGet(before.pieces, c))
        /\ Cardinality(PieceCoords(board)) = Cardinality(PieceCoords(before))

\* a move Down of a group with two members adjacent along the direction
C3_Witness ==
    /\ op = "move"
    /\ direction = "Down"
    /\ \E c \in Members : Neighbor(before, c, direction) \in Members

\* C4: every member of a move-set has a neighbor cell in the direction and no
\* Wall in its border slot in the direction; nothing is moved off the board
C4_NoWallNoEdge ==
    /\ op # "panic"
    /\ op = "drag" =>
          \A c \in Members :
              /\ Neighbor(board, c, direction) # NoCoords
              /\ GetBorder(board, c, direction) # "Wall"

\* a gathered piece behind a Wall is left out of a move-set the leader is in
C4_Witness ==
    /\ op = "drag"
    /\ SetContains(moveSet, leader)
    /\ \E c \in Gathered \ Members : GetBorder(board, c, direction) = "Wall"

\* C5: the destination cell of every member is empty or holds another member
C5_DestinationFreeOrMember ==
    op = "drag" =>
        \A c \in Members :
            LET n == Neighbor(board, c, direction)
            IN  /\ n # NoCoords
                /\ MapGet(board.pieces, n).kind = "None" \/ n \in Members

\* a gathered piece is left out because a piece outside the graph is in its way
C5_Witness ==
    /\ op = "drag"
    /\ \E c \in Gathered \ Members :
          LET n == Neighbor(board, c, direction)
          IN  /\ n # NoCoords
              /\ GetBorder(board, c, direction) = NoBorder
              /\ MapGet(board.pieces, n).kind # "None"
              /\ n \notin Gathered

\* C6: no particle of a move-set has a destination tile of another non-White
\* tint, and a manipulator whose destination cell holds such a particle cannot
\* move in that direction
C6_TintMismatchBlocks ==
    /\ op = "drag" => \A c \in Members : ~TintBlocked(board, c, direction)
    /\ op \in {"select", "drag"} =>
          \A d \in DirectionSet :
              (Neighbor(board, leader, d) # NoCoords
                  /\ TintBlocked(board, Neighbor(board, leader, d), d)) => d \notin allowed

\* tests::tint_mismatch: the leader holds a particle whose destination is mistinted
C6_Witness ==
    /\ op = "drag"
    /\ Neighbor(board, leader, direction) # NoCoords
    /\ Neighbor(board, leader, direction) \in Gathered
    /\ TintBlocked(board, Neighbor(board, leader, direction), direction)
    /\ GetBorder(board, leader, direction) = NoBorder
    /\ direction \notin allowed

\* C7: a particle on a Collector tile is never a member of a move-set, and a
\* manipulator whose destination cell holds such a particle cannot move there
C7_CollectedParticleStays ==
    /\ op = "drag" => \A c \in Members : ~Collected(board, c)
    /\ op \in {"select", "drag"} =>
          \A d \in DirectionSet :
              (Neighbor(board, leader, d) # NoCoords
                  /\ Collected(board, Neighbor(board, leader, d))) => d \notin allowed

\* tests::collected_particles: the leader holds a particle that rests on a
\* Collector and could otherwise move
C7_Witness ==
    /\ op = "drag"
    /\ Neighbor(board, leader, direction) # NoCoords
    /\ Neighbor(board, leader, direction) \in Gathered
    /\ Collected(board, Neighbor(board, leader, direction))
    /\ ~TintBlocked(board, Neighbor(board, leader, direction), direction)
    /\ Neighbor(board, Neighbor(board, leader, direction), direction) # NoCoords
    /\ GetBorder(board, leader, direction) = NoBorder
    /\ direction \notin allowed

(***************************************************************************)
(* The solver call by call (src/src/model/movement.rs): every call of and  *)
(* return from gather is a step, and so is every pass of the prune loop    *)
(***************************************************************************)
\* the recursion depth the model follows; a deeper recursion has run out of stack
StackLimit(b) == b.dims.rows * b.dims.cols + 1

\* entering gather(coords): count the visit; return at once when the node is on
\* the current path, else mark it on the path and open its frame
GatherEnter(s, b, coords) ==
    LET counted ==
            IF MapGet(s.graph, coords) # NoRef
            THEN MapSet(s.graph, coords, U8Inc(MapGet(s.graph, coords)))
            ELSE MapSet(s.graph, coords, 1)
        manipulator == GetManipulator(b, coords)
        targets == IF manipulator.kind = "Manipulator" THEN IterTargets(manipulator) ELSE <<>>
    IN  IF SetContains(s.visited, coords)
        THEN [s EXCEPT !.graph = counted, !.onPathHits = 1]
        ELSE IF Len(s.stack) >= StackLimit(b)
        THEN [s EXCEPT !.graph = counted, !.phase = "overflow"]
        ELSE [s EXCEPT !.graph = counted,
                       !.visited = SetInsert(@, coords),
                       !.stack = Append(@, [coords |-> coords, targets |-> targets, i |-> 1])]

\* MoveSolver::new: an empty graph and on-path set, then gather(leader)
SolverNew(c) ==
    /\ solver.phase = "idle"
    /\ c \in ManipulatorCoords(board)
    /\ solver' = GatherEnter(
                     [IdleSolver EXCEPT
                         !.phase = "gather", !.leader = c,
                         !.graph = GridMapNew(board.dims.rows, board.dims.cols, NoRef),
                         !.visited = GridSetNew(board.dims.rows, board.dims.cols)],
                     board, c)
    /\ UNCHANGED <<board, apiVars, support, progress, observed, beams, codec, level>>

\* the next target of the innermost frame is a piece: gather(target.coords)
GatherDescend ==
    /\ solver.phase = "gather"
    /\ solver.stack # <<>>
    /\ LET top == solver.stack[Len(solver.stack)]
       IN  /\ top.i <= Len(top.targets)
           /\ top.targets[top.i].kind = "Piece"
           /\ solver' = GatherEnter([solver EXCEPT !.stack[Len(solver.stack)].i = top.i + 1],
                                    board, top.targets[top.i].coords)
    /\ UNCHANGED <<board, apiVars, support, progress, observed, beams, codec, level>>

\* the next target of the innermost frame is a border: the loop moves on
GatherSkip ==
    /\ solver.phase = "gather"
    /\ solver.stack # <<>>
    /\ LET top == solver.stack[Len(solver.stack)]
       IN  /\ top.i <= Len(top.targets)
           /\ top.targets[top.i].kind # "Piece"
           /\ solver' = [solver EXCEPT !.stack[Len(solver.stack)].i = top.i + 1]
    /\ UNCHANGED <<board, apiVars, support, progress, observed, beams, codec, level>>

\* the innermost frame has no target left: its ScopedInsert is dropped and gather
\* returns; the return of gather(leader) ends MoveSolver::new
GatherReturn ==
    /\ solver.phase = "gather"
    /\ solver.stack # <<>>
    /\ LET top == solver.stack[Len(solver.stack)]
       IN  /\ top.i > Len(top.targets)
           /\ solver' = [solver EXCEPT
                            !.visited = SetRemove(@, top.coords),
                            !.stack = SubSeq(@, 1, Len(@) - 1),
                            !.phase = IF Len(solver.stack) = 1 THEN "gathered" ELSE "gather"]
    /\ UNCHANGED <<board, apiVars, support, progress, observed, beams, codec, level>>

\* can_move(d) on a clone of the solver: prune with stop_coords = Some(leader)
StartCanMove(d) ==
    /\ solver.phase = "gathered"
    /\ solver' = [solver EXCEPT !.phase = "prune", !.direction = d, !.stop = solver.leader]
    /\ UNCHANGED <<board, apiVars, support, progress, observed, beams, codec, level>>

\* drag(d) on a clone of the solver: prune with stop_coords = None
StartDrag(d) ==
    /\ solver.phase = "gathered"
    /\ solver' = [solver EXCEPT !.phase = "prune", !.direction = d, !.stop = NoCoords]
    /\ UNCHANGED <<board, apiVars, support, progress, observed, beams, codec, level>>

\* one iteration of `while pruned`: a full pass over the graph
PrunePass ==
    /\ solver.phase = "prune"
    /\ LET pass == PruneScan(board, solver.graph, solver.direction, solver.stop, 0, FALSE)
       IN  solver' = [solver EXCEPT
                         !.graph = pass.graph,
                         !.passes = IF @ < 2 THEN @ + 1 ELSE @,
                         !.phase = IF pass.stopped \/ ~pass.pruned THEN "done" ELSE "prune"]
    /\ UNCHANGED <<board, apiVars, support, progress, observed, beams, codec, level>>

NextSolver ==
    \/ \E c \in DimsCells(board.dims) : SolverNew(c)
    \/ GatherDescend
    \/ GatherSkip
    \/ GatherReturn
    \/ \E d \in DirectionSet : StartCanMove(d)
    \/ \E d \in DirectionSet : StartDrag(d)
    \/ PrunePass

SpecSolver == Init /\ [][NextSolver]_vars

\* the work gather has left: every open frame weighs its unvisited targets plus
\* one, and a frame outweighs everything that can be opened below it
RECURSIVE GatherRank(_, _, _)
GatherRank(stack, k, limit) ==
    IF k > Len(stack) THEN 0
    ELSE (Len(stack[k].targets) - stack[k].i + 2) * 4 ^ (limit - k)
         + GatherRank(stack, k + 1, limit)

\* the work prune has left: the nodes still in the graph, and the closing pass
PruneRank(s) ==
    2 * Cardinality({i \in 1..Len(s.graph.cells) : s.graph.cells[i] # NoRef})
    + (IF s.phase = "prune" THEN 1 ELSE 0)

\* a step of a gather or prune in progress strictly decreases the work left
SolverStepDecreases ==
    /\ solver.phase = "gather" =>
          /\ GatherRank(solver'.stack, 1, StackLimit(board)) >= 0
          /\ GatherRank(solver'.stack, 1, StackLimit(board))
                < GatherRank(solver.stack, 1, StackLimit(board))
    /\ solver.phase = "prune" =>
          /\ solver'.phase \in {"prune", "done"}
          /\ PruneRank(solver') < PruneRank(solver)

\* C8: gather (MoveSolver::new) and the prune loop of can_move and drag
\* terminate on every board, beam cycles included: the recursion never runs out
\* of stack, a gather or prune in progress always has a next step, and every
\* such step strictly decreases a natural-number measure of the work left
C8_SolverTerminates ==
    /\ [](solver.phase # "overflow")
    /\ [](solver.phase = "gather" => solver.stack # <<>>)
    /\ [][SolverStepDecreases]_vars

\* a solver run that met an on-path node in gather and needed a second prune pass
C8_Witness ==
    /\ solver.phase = "done"
    /\ solver.onPathHits = 1
    /\ solver.passes >= 2

(***************************************************************************)
(* The beam ring of tests::cycles on a 4x4 board and its one-element       *)
(* variants, under the board-level operations                              *)
(***************************************************************************)
SpecRing == InitWith(RingBoards) /\ [][Next]_vars

\* the cells of a 2x2 block whose upper left corner is <<r, c>>
RingCells(r, c) == {<<r, c>>, <<r, c + 1>>, <<r + 1, c>>, <<r + 1, c + 1>>}

\* four manipulators in a 2x2 block, each targeting its two ring neighbours
RingAt(b, r, c) ==
    /\ r + 1 < b.dims.rows
    /\ c + 1 < b.dims.cols
    /\ \A e \in { <<(<<r, c>>), "RightDown", "Right", "Down">>,
                  <<(<<r, c + 1>>), "LeftDown", "Left", "Down">>,
                  <<(<<r + 1, c>>), "RightUp", "Right", "Up">>,
                  <<(<<r + 1, c + 1>>), "LeftUp", "Left", "Up">> } :
          LET piece == MapGet(b.pieces, e[1])
          IN  /\ piece.kind = "Manipulator"
              /\ piece.emitters = e[2]
              /\ piece.targets[e[3]] = BeamTargetPiece(Neighbor(b, e[1], e[3]))
              /\ piece.targets[e[4]] = BeamTargetPiece(Neighbor(b, e[1], e[4]))

\* every ring member has an in-board destination in direction d, no border in
\* the way, and a destination cell that is empty or another ring member
RingFree(b, r, c, d) ==
    \A m \in RingCells(r, c) :
        /\ Neighbor(b, m, d) # NoCoords
        /\ GetBorder(b, m, d) = NoBorder
        /\ Neighbor(b, m, d) \in RingCells(r, c)
              \/ MapGet(b.pieces, Neighbor(b, m, d)).kind = "None"

\* C9: for a closed beam ring whose members are free to move in a direction,
\* can_move from a ring member is true for that direction and the move-set is
\* the whole ring; with all four directions free, all four are allowed
C9_RingMovesWhole ==
    op = "drag" =>
        \A r \in 0..(board.dims.rows - 2), c \in 0..(board.dims.cols - 2) :
            (RingAt(board, r, c) /\ leader \in RingCells(r, c)) =>
                /\ \A d \in DirectionSet : RingFree(board, r, c, d) => d \in allowed
                /\ RingFree(board, r, c, direction) => Members = RingCells(r, c)

\* tests::cycles: the ring in the middle of the board, every direction allowed
C9_Witness ==
    /\ op = "drag"
    /\ board = RetargetBeams(CyclesBoard)
    /\ leader = <<1, 1>>
    /\ allowed = DirectionSet
    /\ Members = RingCells(1, 1)

(***************************************************************************)
(* unsupported_pieces, one loop iteration at a time, with its ring-buffer  *)
(* queue (src/src/model/support.rs, GridQueue in src/src/model/grid.rs)    *)
(***************************************************************************)
\* Option<usize>: None, Some(idx)
NoIndex == <<>>

SomeIndex(idx) == <<idx>>

\* GridQueue::for_grid: rows * cols slots of BoardCoords::default()
QueueForGrid(dims) ==
    [buffer |-> [i \in 1..(dims.rows * dims.cols) |-> <<0, 0>>],
     push_idx |-> 0,
     pop_idx |-> NoIndex]

\* GridQueue::wrap_inc
WrapInc(q, idx) == IF idx + 1 = Len(q.buffer) THEN 0 ELSE idx + 1

\* GridQueue::push: the assertion fails when the queue is full
QueuePush(q, coords) ==
    IF q.pop_idx = SomeIndex(q.push_idx) THEN [queue |-> q, panic |-> TRUE]
    ELSE [queue |-> [buffer |-> [q.buffer EXCEPT ![q.push_idx + 1] = coords],
                     push_idx |-> WrapInc(q, q.push_idx),
                     pop_idx |-> IF q.pop_idx = NoIndex THEN SomeIndex(q.push_idx)
                                 ELSE q.pop_idx],
          panic |-> FALSE]

\* GridQueue::pop on a non-empty queue: the popped coords and the queue left
QueuePop(q) ==
    LET pop_idx == WrapInc(q, q.pop_idx[1])
    IN  [result |-> q.buffer[q.pop_idx[1] + 1],
         queue |-> [q EXCEPT !.pop_idx = IF pop_idx # q.push_idx THEN SomeIndex(pop_idx)
                                         ELSE NoIndex]]

\* a loop over the targets that pushes none of them
PushTargetsNone(targets, i, unsupported, q) == [queue |-> q, panic |-> FALSE]

RECURSIVE PushTargets(_, _, _, _)
\* the body of the while loop for one manipulator: push every Piece target
\* that is still marked unsupported
PushTargets(targets, i, unsupported, q) ==
    IF i > Len(targets) THEN [queue |-> q, panic |-> FALSE]
    ELSE IF targets[i].kind = "Piece" /\ SetContains(unsupported, targets[i].coords)
    THEN LET pushed == QueuePush(q, targets[i].coords)
         IN  IF pushed.panic THEN pushed
             ELSE PushTargets(targets, i + 1, unsupported, pushed.queue)
    ELSE PushTargets(targets, i + 1, unsupported, q)

\* unsupported_pieces, lines 6-7: the empty set and the empty queue
SupportStart ==
    /\ support.phase = "idle"
    /\ support' = [phase |-> "seed",
                   unsupported |-> GridSetNew(board.dims.rows, board.dims.cols),
                   queue |-> QueueForGrid(board.dims),
                   idx |-> 0]
    /\ UNCHANGED <<board, apiVars, solver, progress, observed, beams, codec, level>>

\* one step of board.pieces.iter(): an occupied cell is marked unsupported and,
\* when it stands on a tile, queued
SupportSeed ==
    /\ support.phase = "seed"
    /\ support.idx < board.dims.rows * board.dims.cols
    /\ LET coords == DimsCoords(board.dims, support.idx)
           pushed == QueuePush(support.queue, coords)
       IN  IF MapGet(board.pieces, coords).kind = "None"
           THEN support' = [support EXCEPT !.idx = @ + 1]
           ELSE IF MapGet(board.tiles, coords).kind = "None"
           THEN support' = [support EXCEPT
                    !.unsupported = SetInsert(@, coords), !.idx = @ + 1]
           ELSE support' = [support EXCEPT
                    !.unsupported = SetInsert(@, coords),
                    !.queue = pushed.queue,
                    !.idx = @ + 1,
                    !.phase = IF pushed.panic THEN "panic" ELSE @]
    /\ UNCHANGED <<board, apiVars, solver, progress, observed, beams, codec, level>>

\* the for loop is over: the while loop starts
SupportSeeded ==
    /\ support.phase = "seed"
    /\ support.idx = board.dims.rows * board.dims.cols
    /\ support' = [support EXCEPT !.phase = "drain"]
    /\ UNCHANGED <<board, apiVars, solver, progress, observed, beams, codec, level>>

\* one iteration of the while loop
SupportPop ==
    /\ support.phase = "drain"
    /\ support.queue.pop_idx # NoIndex
    /\ LET popped == QueuePop(support.queue)
           unsupported == SetRemove(support.unsupported, popped.result)
           piece == MapGet(board.pieces, popped.result)
           pushed == IF piece.kind = "Manipulator"
                     THEN PushTargets(IterTargets(piece), 1, unsupported, popped.queue)
                     ELSE [queue |-> popped.queue, panic |-> FALSE]
       IN  support' = [support EXCEPT
               !.unsupported = unsupported,
               !.queue = pushed.queue,
               !.phase = IF pushed.panic THEN "panic" ELSE @]
    /\ UNCHANGED <<board, apiVars, solver, progress, observed, beams, codec, level>>

\* pop returns None: the set is returned
SupportReturn ==
    /\ support.phase = "drain"
    /\ support.queue.pop_idx = NoIndex
    /\ support' = [support EXCEPT !.phase = "done"]
    /\ UNCHANGED <<board, apiVars, solver, progress, observed, beams, codec, level>>

NextSupport ==
    \/ SupportStart
    \/ SupportSeed
    \/ SupportSeeded
    \/ SupportPop
    \/ SupportReturn

SpecSupport == InitWith(SupportBoards) /\ [][NextSupport]_vars

\* C10: unsupported_pieces completes without panicking: the fullness
\* assertion of GridQueue::push never fires on a board with fresh beams
C10_QueueNeverOverflows == support.phase # "panic"

\* the pieces that rest on a cell holding a tile
Anchored(b) == {c \in PieceCoords(b) : MapGet(b.tiles, c).kind # "None"}

\* the cells named by the Piece-kind cached targets of the manipulator at c
PieceTargets(b, c) ==
    LET piece == MapGet(b.pieces, c)
    IN  IF piece.kind # "Manipulator" THEN {}
        ELSE {piece.targets[d].coords :
                d \in {x \in EmitterDirections(piece.emitters) :
                          piece.targets[x].kind = "Piece"}}

RECURSIVE BeamClosure(_, _)
\* everything reachable from a set of cells along Piece-kind cached targets
BeamClosure(b, cells) ==
    LET next == cells \cup UNION {PieceTargets(b, c) : c \in cells}
    IN  IF next = cells THEN cells ELSE BeamClosure(b, next)

\* C11: a piece that rests on a tile is never in the set unsupported_pieces
\* returns
C11_AnchoredNeverUnsupported ==
    support.phase = "done" =>
        \A c \in Anchored(board) : ~SetContains(support.unsupported, c)

\* a call that returned a non-empty set on a board with an anchored piece
C11_Witness ==
    /\ support.phase = "done"
    /\ Anchored(board) # {}
    /\ ~SetIsEmpty(support.unsupported)

\* C12: the set unsupported_pieces returns is exactly the set of pieces that
\* no tile-resting piece reaches along Piece-kind cached beam targets
C12_UnsupportedIsUnreached ==
    support.phase = "done" =>
        SetCoords(support.unsupported)
            = PieceCoords(board) \ BeamClosure(board, Anchored(board))

\* a call that returned with one piece supported only through a beam and
\* another piece unsupported
C12_Witness ==
    /\ support.phase = "done"
    /\ ~SetIsEmpty(support.unsupported)
    /\ \E c \in PieceCoords(board) \ Anchored(board) :
          ~SetContains(support.unsupported, c)

(***************************************************************************)
(* LevelProgress under the calls Level makes: a particle moved one cell    *)
(* (Level::move_piece) and a piece removed (Level::remove_piece)           *)
(***************************************************************************)
\* a two-by-three level: two manipulators, two particles, two collectors
ProgressBoard ==
    WithPieces([BoardNew(2, 3) EXCEPT
                    !.tiles = PlaceAll(@,
                        << <<(<<0, 0>>), Tile("Platform", "White")>>,
                           <<(<<0, 2>>), Tile("Collector", "White")>>,
                           <<(<<1, 2>>), Tile("Collector", "Green")>> >>, 1)],
        << <<(<<0, 0>>), Manipulator("Right")>>,
           <<(<<0, 1>>), Particle("Red")>>,
           <<(<<1, 0>>), Manipulator("Up")>>,
           <<(<<1, 1>>), Particle("Green")>> >>)

ProgressBoards == {RetargetBeams(v) : v \in Variants(ProgressBoard)}

\* Level::move_piece for a particle that a move carries one cell in direction
\* d: the particle is not held by a Collector, nothing blocks the step, and
\* arriving on a Collector reports particle_collected
LevelMoveParticle(from, d) ==
    LET to == Neighbor(board, from, d)
        piece == MapGet(board.pieces, from)
        tile == MapGet(board.tiles, to)
    IN  /\ ~progress.overflow
        /\ piece.kind = "Particle"
        /\ MapGet(board.tiles, from).kind # "Collector"
        /\ to # NoCoords
        /\ GetBorder(board, from, d) = NoBorder
        /\ MapGet(board.pieces, to).kind = "None"
        /\ IF tile.kind = "None" THEN TRUE ELSE tile.tint \in {"White", piece.tint}
        /\ board' = RetargetBeams(MovePiece(board, from, to))
        /\ progress' = IF tile.kind = "Collector" THEN ParticleCollected(progress)
                       ELSE progress
        /\ observed' = [call |-> IF tile.kind = "Collector" THEN "particle_collected"
                                 ELSE "move",
                        piece |-> "Particle",
                        before |-> progress]
        /\ UNCHANGED <<apiVars, solver, support, beams, codec, level>>

\* Level::remove_piece: piece_lost for the piece, then its removal
LevelRemovePiece(c) ==
    /\ ~progress.overflow
    /\ MapGet(board.pieces, c).kind # "None"
    /\ progress' = PieceLost(progress, MapGet(board.pieces, c))
    /\ board' = RetargetBeams(RemovePiece(board, c))
    /\ observed' = [call |-> "piece_lost", piece |-> MapGet(board.pieces, c).kind,
                    before |-> progress]
    /\ UNCHANGED <<apiVars, solver, support, beams, codec, level>>

NextProgress ==
    \/ \E from \in DimsCells(board.dims), d \in DirectionSet : LevelMoveParticle(from, d)
    \/ \E c \in DimsCells(board.dims) : LevelRemovePiece(c)

SpecProgress == InitWith(ProgressBoards) /\ [][NextProgress]_vars

\* the highest outcome of a set in the severity order, None for the empty set
Highest(outcomes) ==
    IF outcomes = {} THEN NoOutcome
    ELSE CHOOSE o \in outcomes : \A x \in outcomes : OutcomeOrd(o) >= OutcomeOrd(x)

\* the stored outcome never decreases in the severity order
OutcomeNeverDecreases ==
    OutcomeOrd(progress'.outcome) >= OutcomeOrd(progress.outcome)

\* C13: after any sequence of particle_collected and piece_lost calls the
\* stored outcome is the highest-severity outcome triggered so far; it never
\* decreases and never returns to unset
C13_OutcomeIsHighestTriggered ==
    /\ [](progress.outcome = Highest(progress.triggered))
    /\ [][OutcomeNeverDecreases]_vars

\* a loss reported after Victory was stored: the outcome stays Victory
C13_Witness ==
    /\ observed.call = "piece_lost"
    /\ observed.before.outcome = "Victory"
    /\ progress.triggered \cap {"ParticleLost", "NoManipulatorsLeft"} # {}
    /\ progress.outcome = "Victory"

\* C14: particle_collected decrements the uncollected count by exactly one,
\* triggers Victory exactly when the count reaches zero, leaves the outcome
\* alone otherwise and never changes the manipulator count
C14_ParticleCollected ==
    observed.call = "particle_collected" =>
        /\ ~progress.overflow
        /\ progress.uncollected_particles = observed.before.uncollected_particles - 1
        /\ progress.manipulators_left = observed.before.manipulators_left
        /\ progress.triggered = observed.before.triggered
              \cup (IF progress.uncollected_particles = 0 THEN {"Victory"} ELSE {})
        /\ progress.outcome = IF progress.uncollected_particles = 0 THEN "Victory"
                              ELSE observed.before.outcome

\* the last particle collected, and an earlier one that left others behind
C14_Witness ==
    /\ observed.call = "particle_collected"
    /\ observed.before.uncollected_particles = 1
    /\ observed.before.outcome = NoOutcome
    /\ progress.outcome = "Victory"
    /\ LevelProgressNew(before).uncollected_particles >= 2

\* C15: piece_lost(Particle) raises the outcome to at least ParticleLost and
\* changes neither counter; piece_lost(Manipulator) decrements the manipulator
\* count by one and triggers NoManipulatorsLeft only when it reaches zero
C15_PieceLost ==
    observed.call = "piece_lost" =>
        /\ ~progress.overflow
        /\ progress.uncollected_particles = observed.before.uncollected_particles
        /\ observed.piece = "Particle" =>
              /\ OutcomeOrd(progress.outcome) >= OutcomeOrd("ParticleLost")
              /\ OutcomeOrd(progress.outcome) >= OutcomeOrd(observed.before.outcome)
              /\ progress.manipulators_left = observed.before.manipulators_left
        /\ observed.piece = "Manipulator" =>
              /\ progress.manipulators_left = observed.before.manipulators_left - 1
              /\ progress.manipulators_left > 0 =>
                    progress.outcome = observed.before.outcome
              /\ progress.manipulators_left = 0 =>
                    /\ "NoManipulatorsLeft" \in progress.triggered
                    /\ OutcomeOrd(progress.outcome) >= OutcomeOrd("NoManipulatorsLeft")

\* the last manipulator lost after another was lost without an outcome
C15_Witness ==
    /\ observed.call = "piece_lost"
    /\ observed.piece = "Manipulator"
    /\ observed.before.manipulators_left = 1
    /\ observed.before.outcome = NoOutcome
    /\ progress.outcome = "NoManipulatorsLeft"
    /\ LevelProgressNew(before).manipulators_left >= 2

\* C16: LevelProgress::new starts with no outcome, counts the manipulators
\* and counts the particles that do not rest on a Collector whose tint is
\* White or the particle's own
C16_NewCounts ==
    observed.call = "new" =>
        /\ progress.outcome = NoOutcome
        /\ progress.manipulators_left = Cardinality(ManipulatorCoords(board))
        /\ progress.uncollected_particles =
              Cardinality({c \in PieceCoords(board) :
                  /\ MapGet(board.pieces, c).kind = "Particle"
                  /\ ~ /\ MapGet(board.tiles, c).kind = "Collector"
                       /\ MapGet(board.tiles, c).tint
                              \in {"White", MapGet(board.pieces, c).tint}})

(***************************************************************************)
(* Beam targeting: find_beam_target and retarget_beams on boards whose     *)
(* cached targets may be unset or stale                                    *)
(***************************************************************************)
\* the one-element variants of two scenario boards, cached targets unset
BeamBoards == Variants(SeedChain) \cup Variants(SeedTrain)

\* Board::find_beam_target(c, d) for a manipulator at c
FindBeamTargetOp(c, d) ==
    /\ MapGet(board.pieces, c).kind = "Manipulator"
    /\ beams' = [call |-> "find_beam_target", coords |-> c, direction |-> d,
                 target |-> FindBeamTarget(board, c, d)]
    /\ UNCHANGED <<board, apiVars, solver, support, progress, observed, codec, level>>

\* Board::retarget_beams
RetargetBeamsOp ==
    /\ board' = RetargetBeams(board)
    /\ beams' = [call |-> "retarget_beams", before |-> board]
    /\ UNCHANGED <<apiVars, solver, support, progress, observed, codec, level>>

\* Board::remove_piece: the cached targets of the other pieces go stale
RemovePieceOp(c) ==
    /\ moves < MaxMoves
    /\ MapGet(board.pieces, c).kind # "None"
    /\ board' = RemovePiece(board, c)
    /\ moves' = moves + 1
    /\ beams' = [call |-> "remove_piece", coords |-> c]
    /\ UNCHANGED <<op, leader, allowed, direction, moveSet, before, solver, support,
                   progress, observed, codec, level>>

NextBeams ==
    \/ \E c \in DimsCells(board.dims), d \in DirectionSet : FindBeamTargetOp(c, d)
    \/ RetargetBeamsOp
    \/ \E c \in DimsCells(board.dims) : RemovePieceOp(c)

SpecBeams == InitWith(BeamBoards) /\ [][NextBeams]_vars

\* the cell k steps from c in direction d, on the board or off it
RayCell(c, d, k) ==
    CASE d = "Up" -> <<c[1] - k, c[2]>>
      [] d = "Left" -> <<c[1], c[2] - k>>
      [] d = "Down" -> <<c[1] + k, c[2]>>
      [] d = "Right" -> <<c[1], c[2] + k>>

OnBoard(b, cell) ==
    /\ cell[1] >= 0 /\ cell[1] < b.dims.rows
    /\ cell[2] >= 0 /\ cell[2] < b.dims.cols

\* the border slot crossed by step k of the scan, and whether it is a Wall
RaySlot(c, d, k) == ToBorderCoords(RayCell(c, d, k), d)

RayWall(b, c, d, k) ==
    MapGet(Borders(b, Flip(Orientation(d))), RaySlot(c, d, k)) = "Wall"

\* step k of the scan meets an obstruction: a Wall, the board edge or a piece
RayStops(b, c, d, k) ==
    \/ RayWall(b, c, d, k)
    \/ ~OnBoard(b, RayCell(c, d, k + 1))
    \/ MapGet(b.pieces, RayCell(c, d, k + 1)).kind # "None"

\* the first step of the scan that meets an obstruction
FirstStop(b, c, d) ==
    CHOOSE k \in 0..(b.dims.rows + b.dims.cols) :
        /\ \A j \in 0..k : OnBoard(b, RayCell(c, d, j))
        /\ RayStops(b, c, d, k)
        /\ \A j \in 0..(k - 1) : ~RayStops(b, c, d, j)

\* the first obstruction: Wall before edge before piece within one step
FirstObstruction(b, c, d) ==
    LET k == FirstStop(b, c, d)
    IN  IF RayWall(b, c, d, k) \/ ~OnBoard(b, RayCell(c, d, k + 1))
        THEN BeamTargetBorder(RaySlot(c, d, k))
        ELSE BeamTargetPiece(RayCell(c, d, k + 1))

\* C17: find_beam_target(c, d) returns the first obstruction met when
\* scanning from c in direction d: the first Wall crossed, else the first
\* piece, else the boundary slot; a Wall is tested before the piece behind
\* it, Windows and empty cells never stop the beam, the origin is ignored
C17_FirstObstruction ==
    beams.call = "find_beam_target" =>
        beams.target = FirstObstruction(board, beams.coords, beams.direction)

\* a scan stopped by a Wall that has a piece in the cell right behind it
C17_Witness ==
    /\ beams.call = "find_beam_target"
    /\ beams.target.kind = "Border"
    /\ LET k == FirstStop(board, beams.coords, beams.direction)
           behind == RayCell(beams.coords, beams.direction, k + 1)
       IN  /\ OnBoard(board, behind)
           /\ MapGet(board.pieces, behind).kind # "None"

\* the cached targets of b are what find_beam_target gives on b
FreshBeams(b) ==
    \A c \in ManipulatorCoords(b) :
        \A d \in EmitterDirections(MapGet(b.pieces, c).emitters) :
            MapGet(b.pieces, c).targets[d] = FindBeamTarget(b, c, d)

\* C18: after retarget_beams every active emitter direction of every
\* manipulator caches find_beam_target of the current board, no inactive
\* direction is written, nothing but cached targets changes, and a second run
\* changes nothing
C18_RetargetBeams ==
    beams.call = "retarget_beams" =>
        /\ FreshBeams(board)
        /\ \A c \in ManipulatorCoords(board) :
              \A d \in DirectionSet \ EmitterDirections(MapGet(board.pieces, c).emitters) :
                  MapGet(board.pieces, c).targets[d]
                      = MapGet(beams.before.pieces, c).targets[d]
        /\ board.dims = beams.before.dims
        /\ board.tiles = beams.before.tiles
        /\ board.horz_borders = beams.before.horz_borders
        /\ board.vert_borders = beams.before.vert_borders
        /\ \A c \in DimsCells(board.dims) :
              Identity(MapGet(board.pieces, c)) = Identity(MapGet(beams.before.pieces, c))
        /\ RetargetBeams(board) = board

\* a retarget that replaced a stale cached target
C18_Witness ==
    /\ beams.call = "retarget_beams"
    /\ \E c \in ManipulatorCoords(board) :
          \E d \in EmitterDirections(MapGet(board.pieces, c).emitters) :
              /\ MapGet(beams.before.pieces, c).targets[d] # NoTarget
              /\ MapGet(beams.before.pieces, c).targets[d]
                    # MapGet(board.pieces, c).targets[d]

(***************************************************************************)
(* The PBC1 decoder (src/src/model/pbc1.rs).  A code is a sequence of      *)
(* one-character strings, a payload a sequence of bytes.                   *)
(***************************************************************************)
\* the literal the code must start with
SignaturePrefix == <<":", "P", "B", "C", "1", ":">>

\* a prefix test that only compares lengths
StartsWithLength(code, prefix) == Len(code) >= Len(prefix)

\* str::starts_with
StartsWith(code, prefix) ==
    /\ Len(code) >= Len(prefix)
    /\ SubSeq(code, 1, Len(prefix)) = prefix

\* the standard base64 alphabet; the value of a symbol is its position less one
Base64Alphabet ==
    << "A", "B", "C", "D", "E", "F", "G", "H", "I", "J", "K", "L", "M",
       "N", "O", "P", "Q", "R", "S", "T", "U", "V", "W", "X", "Y", "Z",
       "a", "b", "c", "d", "e", "f", "g", "h", "i", "j", "k", "l", "m",
       "n", "o", "p", "q", "r", "s", "t", "u", "v", "w", "x", "y", "z",
       "0", "1", "2", "3", "4", "5", "6", "7", "8", "9", "+", "/" >>

Base64Symbols == {Base64Alphabet[i] : i \in 1..Len(Base64Alphabet)}

Base64Value(ch) == (CHOOSE i \in 1..Len(Base64Alphabet) : Base64Alphabet[i] = ch) - 1

\* the number of trailing "=" of a text, at most two
Base64Padding(text) ==
    IF Len(text) >= 2 /\ text[Len(text)] = "=" /\ text[Len(text) - 1] = "=" THEN 2
    ELSE IF Len(text) >= 1 /\ text[Len(text)] = "=" THEN 1
    ELSE 0

RECURSIVE Base64Groups(_, _, _)
\* the bytes of the symbols text[i..n], four symbols to three bytes; a last
\* group of two or three symbols gives one or two bytes
Base64Groups(text, i, n) ==
    IF i > n THEN <<>>
    ELSE LET v(k) == IF i + k <= n THEN Base64Value(text[i + k]) ELSE 0
             word == ((v(0) * 64 + v(1)) * 64 + v(2)) * 64 + v(3)
             bytes == <<word \div 65536, (word \div 256) % 256, word % 256>>
             count == IF i + 3 <= n THEN 3 ELSE n - i
         IN  SubSeq(bytes, 1, count) \o Base64Groups(text, i + 4, n)

\* base64 STANDARD decode: canonical padding required, no symbol outside the
\* alphabet, no stray bits in the last symbol
Base64Decode(text) ==
    LET pad == Base64Padding(text)
        n == Len(text) - pad
        last == IF n = 0 THEN 0 ELSE Base64Value(text[n])
    IN  IF \/ Len(text) % 4 # 0
           \/ \E i \in 1..n : text[i] \notin Base64Symbols
           \/ pad = 1 /\ last % 4 # 0
           \/ pad = 2 /\ last % 16 # 0
        THEN [ok |-> FALSE, bytes |-> <<>>]
        ELSE [ok |-> TRUE, bytes |-> Base64Groups(text, 1, n)]

\* Option<u64>::None of read_bits
NoBits == -1

RECURSIVE BitsValue(_, _, _)
\* the value of the n bits from bit position pos on, least significant first
BitsValue(bytes, pos, n) ==
    IF n = 0 THEN 0
    ELSE ((bytes[(pos \div 8) + 1] \div (2 ^ (pos % 8))) % 2)
            + 2 * BitsValue(bytes, pos + 1, n - 1)

\* LittleEndianReader::read_bits at bit position pos: None when fewer than n
\* bits are left
ReadBits(bytes, pos, n) ==
    IF pos + n > 8 * Len(bytes) THEN NoBits ELSE BitsValue(bytes, pos, n)

\* Err(Pbc1DecodeError) and Ok(Board)
DecodeErr(error, value) == [kind |-> "Err", error |-> error, value |-> value]

DecodeOk(b) == [kind |-> "Ok", board |-> b]

\* Tint::from_repr, TileKind::from_repr, Emitters::from_repr
TintFromRepr == <<"White", "Green", "Yellow", "Red">>

TileKindFromRepr == <<"Platform", "Collector">>

\* a table with the first two emitter combinations exchanged
EmittersFromReprSwapped ==
    <<"Up", "Left", "Right", "Down", "LeftUp", "LeftDown", "RightUp", "RightDown",
      "LeftRight", "UpDown">>

EmittersFromRepr ==
    <<"Left", "Up", "Right", "Down", "LeftUp", "LeftDown", "RightUp", "RightDown",
      "LeftRight", "UpDown">>

\* match arms that make a Wall of every border value but 0
BorderFromValueWall(v) == IF v = 0 THEN NoBorder ELSE "Wall"

\* the match arms of the border values: 0 none, 1 Wall, 2 Window
BorderFromValue(v) == IF v = 0 THEN NoBorder ELSE IF v = 1 THEN "Wall" ELSE "Window"

\* decode, lines 59-104: the fields of one cell read from bit position pos,
\* appended to the board under construction
DecodeCell(bytes, pos, b) ==
    LET flags == ReadBits(bytes, pos, 3)
        p1 == pos + 3
        has_tile == flags # NoBits /\ flags % 2 # 0
        has_piece == flags # NoBits /\ (flags \div 2) % 2 # 0
        has_borders == flags # NoBits /\ (flags \div 4) % 2 # 0
        tile == IF has_tile THEN ReadBits(bytes, p1, 3) ELSE 0
        p2 == IF has_tile THEN p1 + 3 ELSE p1
        piece == IF has_piece THEN ReadBits(bytes, p2, 4) ELSE 0
        p3 == IF has_piece THEN p2 + 4 ELSE p2
        raw == IF has_borders THEN ReadBits(bytes, p3, 3) ELSE 0
        p4 == IF has_borders THEN p3 + 3 ELSE p3
        borders == raw + 1
    IN  IF flags = NoBits \/ tile = NoBits THEN DecodeErr("UnexpectedEnd", 0)
        ELSE IF piece = NoBits THEN DecodeErr("UnexpectedEnd", 0)
        ELSE IF has_piece /\ piece >= 13 THEN DecodeErr("InvalidPiece", piece)
        ELSE IF raw = NoBits THEN DecodeErr("UnexpectedEnd", 0)
        ELSE IF has_borders /\ borders \div 3 > 2 THEN DecodeErr("InvalidBorder", borders)
        ELSE [kind |-> "Cell", pos |-> p4,
              board |-> [b EXCEPT
                !.tiles = Append(@,
                    IF has_tile
                    THEN Tile(TileKindFromRepr[(tile \div 4) + 1], TintFromRepr[(tile % 4) + 1])
                    ELSE NoTile),
                !.pieces = Append(@,
                    IF ~has_piece THEN NoPiece
                    ELSE IF piece < 3 THEN Particle(TintFromRepr[piece + 2])
                    ELSE Manipulator(EmittersFromRepr[piece - 2])),
                !.horz_borders = Append(@,
                    IF has_borders THEN BorderFromValue(borders % 3) ELSE NoBorder),
                !.vert_borders = Append(@,
                    IF has_borders THEN BorderFromValue(borders \div 3) ELSE NoBorder)]]

RECURSIVE DecodeTrailing(_, _, _, _)
\* decode, lines 112-118: one bit per column for the bottom edge
DecodeTrailing(bytes, pos, b, c) ==
    IF c = b.cols THEN DecodeOk(b)
    ELSE LET bit == ReadBits(bytes, pos, 1)
         IN  IF bit = NoBits THEN DecodeErr("UnexpectedEnd", 0)
             ELSE DecodeTrailing(bytes, pos + 1,
                      [b EXCEPT !.horz_borders =
                          Append(@, IF bit = 1 THEN "Wall" ELSE NoBorder)],
                      c + 1)

RECURSIVE DecodeCellsNoEdge(_, _, _, _, _)
\* a cell loop that reads the bit after each row and stores no slot for it
DecodeCellsNoEdge(bytes, pos, b, r, c) ==
    IF r = b.rows THEN DecodeTrailing(bytes, pos, b, 0)
    ELSE IF c = b.cols
    THEN LET bit == ReadBits(bytes, pos, 1)
         IN  IF bit = NoBits THEN DecodeErr("UnexpectedEnd", 0)
             ELSE DecodeCellsNoEdge(bytes, pos + 1, b, r + 1, 0)
    ELSE LET cell == DecodeCell(bytes, pos, b)
         IN  IF cell.kind = "Err" THEN cell
             ELSE DecodeCellsNoEdge(bytes, cell.pos, cell.board, r, c + 1)

RECURSIVE DecodeCells(_, _, _, _, _)
\* decode, lines 57-111: the cells row by row, one bit after each row for the
\* right edge
DecodeCells(bytes, pos, b, r, c) ==
    IF r = b.rows THEN DecodeTrailing(bytes, pos, b, 0)
    ELSE IF c = b.cols
    THEN LET bit == ReadBits(bytes, pos, 1)
         IN  IF bit = NoBits THEN DecodeErr("UnexpectedEnd", 0)
             ELSE DecodeCells(bytes, pos + 1,
                      [b EXCEPT !.vert_borders =
                          Append(@, IF bit = 1 THEN "Wall" ELSE NoBorder)],
                      r + 1, 0)
    ELSE LET cell == DecodeCell(bytes, pos, b)
         IN  IF cell.kind = "Err" THEN cell
             ELSE DecodeCells(bytes, cell.pos, cell.board, r, c + 1)

\* decode, lines 41-128: the rest of the header and the board
DecodeBoard(bytes) ==
    LET flags == ReadBits(bytes, 4, 4)
        cols == ReadBits(bytes, 8, 4)
        rows == ReadBits(bytes, 12, 4)
    IN  IF flags = NoBits \/ cols = NoBits \/ rows = NoBits
        THEN DecodeErr("UnexpectedEnd", 0)
        ELSE DecodeCells(bytes, 16,
                 [rows |-> rows, cols |-> cols, tiles |-> <<>>, horz_borders |-> <<>>,
                  vert_borders |-> <<>>, pieces |-> <<>>],
                 0, 0)

\* a version check made only once the whole header is known to be there
DecodeVersionLate(bytes) ==
    LET version == ReadBits(bytes, 0, 4)
    IN  IF ReadBits(bytes, 12, 4) = NoBits THEN DecodeErr("UnexpectedEnd", 0)
        ELSE IF version # 1 THEN DecodeErr("Version", version)
        ELSE [kind |-> "Continue"]

\* decode, lines 36-39: the version field
DecodeVersion(bytes) ==
    LET version == ReadBits(bytes, 0, 4)
    IN  IF version = NoBits THEN DecodeErr("UnexpectedEnd", 0)
        ELSE IF version # 1 THEN DecodeErr("Version", version)
        ELSE [kind |-> "Continue"]

RECURSIVE Base64Encode(_, _)
\* standard base64 with padding of the bytes from position i on
Base64Encode(bytes, i) ==
    IF i > Len(bytes) THEN <<>>
    ELSE LET b(k) == IF i + k <= Len(bytes) THEN bytes[i + k] ELSE 0
             word == (b(0) * 256 + b(1)) * 256 + b(2)
             sym(k) == Base64Alphabet[((word \div (64 ^ (3 - k))) % 64) + 1]
             left == Len(bytes) - i + 1
         IN  (IF left >= 3 THEN <<sym(0), sym(1), sym(2), sym(3)>>
              ELSE IF left = 2 THEN <<sym(0), sym(1), sym(2), "=">>
              ELSE <<sym(0), sym(1), "=", "=">>)
             \o Base64Encode(bytes, i + 3)

\* the first payload byte: every version with three settings of the flags
VersionBytes == {version + 16 * flags : version \in 0..15, flags \in {0, 9, 15}}

\* the second payload byte: columns in the low half, rows in the high half
SizeBytes == {0, 2, 17, 18, 32, 33}

\* bytes of cell data
CellBytes == {0, 83, 255}

\* second bytes of cell data
TailBytes == {0, 3, 165, 255}

\* version-1 payloads of boards of one or two cells, every first byte of
\* cell data
CellPayloads ==
    {<<1, z, x, y>> : z \in {17, 18, 33}, x \in 0..255, y \in TailBytes}

\* version-1 payloads of 2x2 boards whose four cells carry a border field
\* each, followed by the two right-edge bits and the two bottom-edge bits
GridPayloads ==
    {<<1, 34, 4 + 8 * f[1], 129 + 2 * f[2] + 16 * e[1],
       32 + f[3] + 64 * (f[4] % 4), (f[4] \div 4) + 2 * e[2] + 4 * e[3] + 8 * e[4]>> :
        f \in {0, 2, 5, 7} \X {1, 6} \X {3, 4} \X {0, 2, 5, 7},
        e \in {0, 1} \X {0, 1} \X {0, 1} \X {0, 1}}

\* payloads of zero to six bytes
Payloads ==
    CellPayloads \cup GridPayloads \cup
    {<<>>}
    \cup {<<v>> : v \in VersionBytes}
    \cup {<<v, z>> : v \in VersionBytes, z \in SizeBytes}
    \cup {<<v, z, x>> : v \in VersionBytes, z \in SizeBytes, x \in CellBytes}
    \cup {<<v, z, x, y>> : v \in {1, 18, 241}, z \in SizeBytes, x \in CellBytes,
                           y \in CellBytes}

\* texts that are no PBC1 signature
BadPrefixes ==
    { <<>>, <<":">>, <<":", "P", "B", "C", "1">>, <<"P", "B", "C", "1", ":">>,
      <<":", "P", "B", "C", "2", ":">>, <<":", "p", "b", "c", "1", ":">>,
      <<" ", ":", "P", "B", "C", "1", ":">> }

\* texts that are no standard base64
BadBase64 ==
    { <<"A">>, <<"A", "Q">>, <<"A", "Q", "=">>, <<"A", "Q", "=", "=", "=">>,
      <<"!", "Q", "=", "=">>, <<"A", "R", "=", "=">>, <<"A", "Q", "B", "=">>,
      <<"=", "=", "=", "=">>, <<"A", "=", "Q", "=">>, <<"A", "Q", " ", " ">> }

\* the codes handed to the decoder
Codes ==
    {SignaturePrefix \o Base64Encode(payload, 1) : payload \in Payloads}
    \cup {SignaturePrefix \o text : text \in BadBase64}
    \cup {prefix \o text :
            prefix \in BadPrefixes,
            text \in BadBase64 \cup {Base64Encode(payload, 1) :
                                       payload \in {<<>>, <<1>>, <<1, 17, 0>>, <<18, 0>>}}}

\* Board::from_pbc1(code): decode is entered
FromPbc1(code) ==
    /\ codec.phase = "idle"
    /\ codec' = [phase |-> "signature", code |-> code, base64_run |-> FALSE,
                 bytes |-> <<>>, result |-> [kind |-> "None"]]
    /\ UNCHANGED <<board, apiVars, solver, support, progress, observed, beams, level>>

\* decode, lines 29-31
CheckSignature ==
    /\ codec.phase = "signature"
    /\ codec' = IF ~StartsWith(codec.code, SignaturePrefix)
                THEN [codec EXCEPT !.phase = "done",
                                   !.result = DecodeErr("Signature", 0)]
                ELSE [codec EXCEPT !.phase = "base64"]
    /\ UNCHANGED <<board, apiVars, solver, support, progress, observed, beams, level>>

\* decode, lines 33-34
DecodeBase64 ==
    /\ codec.phase = "base64"
    /\ LET decoded == Base64Decode(SubSeq(codec.code, 7, Len(codec.code)))
       IN  codec' = IF ~decoded.ok
                    THEN [codec EXCEPT !.phase = "done", !.base64_run = TRUE,
                                       !.result = DecodeErr("Base64", 0)]
                    ELSE [codec EXCEPT !.phase = "version", !.base64_run = TRUE,
                                       !.bytes = decoded.bytes]
    /\ UNCHANGED <<board, apiVars, solver, support, progress, observed, beams, level>>

\* decode, lines 36-39
ReadVersion ==
    /\ codec.phase = "version"
    /\ LET checked == DecodeVersion(codec.bytes)
       IN  codec' = IF checked.kind = "Err"
                    THEN [codec EXCEPT !.phase = "done", !.result = checked]
                    ELSE [codec EXCEPT !.phase = "board"]
    /\ UNCHANGED <<board, apiVars, solver, support, progress, observed, beams, level>>

\* decode, lines 41-128
ReadBoard ==
    /\ codec.phase = "board"
    /\ codec' = [codec EXCEPT !.phase = "done", !.result = DecodeBoard(codec.bytes)]
    /\ UNCHANGED <<board, apiVars, solver, support, progress, observed, beams, level>>

NextCodec ==
    \/ \E code \in Codes : FromPbc1(code)
    \/ CheckSignature
    \/ DecodeBase64
    \/ ReadVersion
    \/ ReadBoard

SpecCodec == InitWith({BoardNew(1, 1)}) /\ [][NextCodec]_vars

\* the text handed to the decoder begins with the six characters :PBC1:
HasSignature ==
    /\ Len(codec.code) >= 6
    /\ \A i \in 1..6 : codec.code[i] = SignaturePrefix[i]

\* C19: decode returns the Signature error for every input that does not
\* start with ":PBC1:", before any base64 or bitstream processing
C19_SignatureFirst ==
    (codec.phase = "done" /\ ~HasSignature) =>
        /\ codec.result = DecodeErr("Signature", 0)
        /\ ~codec.base64_run
        /\ codec.bytes = <<>>

\* a Signature error for a text whose remainder would decode as a payload
C19_Witness ==
    /\ codec.phase = "done"
    /\ codec.result = DecodeErr("Signature", 0)
    /\ codec.code = <<":", "P", "B", "C", "2", ":">> \o Base64Encode(<<1, 17, 0>>, 1)

\* C20: a correctly prefixed, valid base64 payload of at least 4 bits whose
\* version field is not 1 decodes to Version(v) with that value, whatever
\* the flags and the rest of the payload are
C20_VersionError ==
    (/\ codec.phase = "done"
     /\ HasSignature
     /\ Base64Decode(SubSeq(codec.code, 7, Len(codec.code))).ok
     /\ Len(codec.bytes) >= 1
     /\ codec.bytes[1] % 16 # 1) =>
        codec.result = DecodeErr("Version", codec.bytes[1] % 16)

\* a one-byte payload with version 2 and all flag bits set: Version, although
\* the rest of the header is missing
C20_Witness ==
    /\ codec.phase = "done"
    /\ codec.bytes = <<242>>
    /\ codec.result = DecodeErr("Version", 2)

\* decode from the version field on, for a payload of bytes
DecodePayload(bytes) ==
    LET checked == DecodeVersion(bytes)
    IN  IF checked.kind = "Err" THEN checked ELSE DecodeBoard(bytes)

\* C21: a version-1 bitstream that ends before every field of its layout is
\* read decodes to UnexpectedEnd and no board, so truncating a code that
\* decodes successfully never yields a board
C21_TruncationNeverDecodes ==
    (codec.phase = "done" /\ codec.result.kind = "Ok") =>
        \A n \in 0..(Len(codec.bytes) - 1) :
            DecodePayload(SubSeq(codec.bytes, 1, n)) = DecodeErr("UnexpectedEnd", 0)

\* the payload is version 1, has a cell (0,0), and the flags of that cell
\* announce a piece whose four bits are all there
FirstPieceRead ==
    /\ codec.phase = "done"
    /\ codec.base64_run
    /\ Len(codec.bytes) >= 3
    /\ codec.bytes[1] % 16 = 1
    /\ codec.bytes[2] % 16 >= 1
    /\ codec.bytes[2] \div 16 >= 1
    /\ (codec.bytes[3] \div 2) % 2 = 1
    /\ 8 * Len(codec.bytes) >= 19 + 3 * (codec.bytes[3] % 2) + 4

\* the four-bit piece code of cell (0,0)
FirstPieceCode == BitsValue(codec.bytes, 19 + 3 * (codec.bytes[3] % 2), 4)

\* the directions each piece code from 3 to 12 stands for
PieceCodeDirections ==
    [code \in 3..12 |->
        CASE code = 3 -> {"Left"}
          [] code = 4 -> {"Up"}
          [] code = 5 -> {"Right"}
          [] code = 6 -> {"Down"}
          [] code = 7 -> {"Left", "Up"}
          [] code = 8 -> {"Left", "Down"}
          [] code = 9 -> {"Right", "Up"}
          [] code = 10 -> {"Right", "Down"}
          [] code = 11 -> {"Left", "Right"}
          [] code = 12 -> {"Up", "Down"}]

\* C22: a piece code of 0, 1 or 2 decodes to a Green, Yellow or Red particle
\* (never White), a code of 3 to 12 to the manipulator with emitter
\* combination code - 3, ten distinct combinations of one or two directions,
\* and a code of 13, 14 or 15 fails with InvalidPiece carrying the code
C22_PieceCodes ==
    /\ \A code \in 3..12 : Cardinality(PieceCodeDirections[code]) \in {1, 2}
    /\ \A a, b \in 3..12 : PieceCodeDirections[a] = PieceCodeDirections[b] => a = b
    /\ FirstPieceRead =>
         LET code == FirstPieceCode
             result == codec.result
         IN  /\ code >= 13 => result = DecodeErr("InvalidPiece", code)
             /\ (code < 13 /\ result.kind = "Ok") =>
                  LET piece == result.board.pieces[1]
                  IN  /\ code = 0 => piece = Particle("Green")
                      /\ code = 1 => piece = Particle("Yellow")
                      /\ code = 2 => piece = Particle("Red")
                      /\ code >= 3 =>
                           /\ piece.kind = "Manipulator"
                           /\ EmitterDirections(piece.emitters) = PieceCodeDirections[code]
             /\ (code < 13 /\ result.kind = "Err" /\ codec.bytes[2] = 17) =>
                  result.error \in {"UnexpectedEnd", "InvalidBorder"}

\* the last manipulator code has been decoded in cell (0,0) of a board
C22_Witness ==
    /\ FirstPieceRead
    /\ FirstPieceCode = 12
    /\ codec.result.kind = "Ok"

\* the bit position of the border field of cell (0,0)
FirstBorderPos ==
    19 + 3 * (codec.bytes[3] % 2) + 4 * ((codec.bytes[3] \div 2) % 2)

\* the payload is version 1, has a cell (0,0), the flags of that cell
\* announce a border field whose three bits are all there, and the piece
\* before it, if any, is valid
FirstBorderRead ==
    /\ codec.phase = "done"
    /\ codec.base64_run
    /\ Len(codec.bytes) >= 3
    /\ codec.bytes[1] % 16 = 1
    /\ codec.bytes[2] % 16 >= 1
    /\ codec.bytes[2] \div 16 >= 1
    /\ (codec.bytes[3] \div 4) % 2 = 1
    /\ 8 * Len(codec.bytes) >= FirstBorderPos + 3
    /\ (codec.bytes[3] \div 2) % 2 = 1 => FirstPieceCode < 13

\* the border a stored value of 0, 1 or 2 names
BorderNamed(k) == <<"None", "Wall", "Window">>[k + 1]

\* C23: a three-bit border field r is read as v = r + 1 in 1..8, the
\* horizontal border being v mod 3 and the vertical one v div 3 (0 none,
\* 1 Wall, 2 Window); the eight values of r map one-to-one onto the eight
\* pairs other than (none, none), so InvalidBorder is never produced
C23_BorderField ==
    /\ {<<(r + 1) % 3, (r + 1) \div 3>> : r \in 0..7}
          = ((0..2) \X (0..2)) \ {<<0, 0>>}
    /\ \A a, b \in 0..7 :
          <<(a + 1) % 3, (a + 1) \div 3>> = <<(b + 1) % 3, (b + 1) \div 3>> => a = b
    /\ codec.phase = "done" =>
          ~(codec.result.kind = "Err" /\ codec.result.error = "InvalidBorder")
    /\ (FirstBorderRead /\ codec.result.kind = "Ok") =>
          LET v == BitsValue(codec.bytes, FirstBorderPos, 3) + 1
          IN  /\ v \in 1..8
              /\ codec.result.board.horz_borders[1] = BorderNamed(v % 3)
              /\ codec.result.board.vert_borders[1] = BorderNamed(v \div 3)

\* a border field of 7 has been decoded in cell (0,0) of a board: Windows on
\* both sides
C23_Witness ==
    /\ FirstBorderRead
    /\ codec.result.kind = "Ok"
    /\ BitsValue(codec.bytes, FirstBorderPos, 3) = 7
    /\ codec.result.board.horz_borders[1] = "Window"
    /\ codec.result.board.vert_borders[1] = "Window"

\* the number of bits of the cell whose flags start at bit position pos
CellSize(bytes, pos) ==
    LET flags == BitsValue(bytes, pos, 3)
    IN  3 + 3 * (flags % 2) + 4 * ((flags \div 2) % 2) + 3 * ((flags \div 4) % 2)

RECURSIVE CellPos(_, _, _, _)
\* the bit position where cell (r, c) of a board of cols columns starts; for
\* c = cols, the position of the bit that follows row r
CellPos(bytes, cols, r, c) ==
    IF c > 0
    THEN LET prev == CellPos(bytes, cols, r, c - 1)
         IN  prev + CellSize(bytes, prev)
    ELSE IF r = 0 THEN 16
    ELSE CellPos(bytes, cols, r - 1, cols) + 1

\* the horizontal and vertical border the stream holds for cell (r, c)
CellBorders(bytes, cols, r, c) ==
    LET pos == CellPos(bytes, cols, r, c)
        flags == BitsValue(bytes, pos, 3)
        v == BitsValue(bytes, pos + 3 + 3 * (flags % 2) + 4 * ((flags \div 2) % 2), 3) + 1
    IN  IF (flags \div 4) % 2 = 0 THEN <<"None", "None">>
        ELSE <<BorderNamed(v % 3), BorderNamed(v \div 3)>>

\* the border a single edge bit stands for
EdgeBit(bytes, pos) == IF BitsValue(bytes, pos, 1) = 1 THEN "Wall" ELSE "None"

\* C24: a decoded board has rows*cols tile and piece slots, (rows+1)*cols
\* horizontal and rows*(cols+1) vertical border slots; the border field of
\* cell (r, c) fills horizontal slot (r, c) and vertical slot (r, c), the bit
\* after row r fills vertical slot (r, cols), the final bit of column c fills
\* horizontal slot (rows, c), and those trailing slots hold a Wall or nothing
C24_SlotLayout ==
    (codec.phase = "done" /\ codec.result.kind = "Ok") =>
        LET b == codec.result.board
            bytes == codec.bytes
            rows == bytes[2] \div 16
            cols == bytes[2] % 16
        IN  /\ b.rows = rows /\ b.cols = cols
            /\ Len(b.tiles) = rows * cols
            /\ Len(b.pieces) = rows * cols
            /\ Len(b.horz_borders) = (rows + 1) * cols
            /\ Len(b.vert_borders) = rows * (cols + 1)
            /\ \A r \in 0..(rows - 1) :
                 /\ \A c \in 0..(cols - 1) :
                      /\ b.horz_borders[r * cols + c + 1]
                            = CellBorders(bytes, cols, r, c)[1]
                      /\ b.vert_borders[r * (cols + 1) + c + 1]
                            = CellBorders(bytes, cols, r, c)[2]
                 /\ b.vert_borders[r * (cols + 1) + cols + 1]
                       = EdgeBit(bytes, CellPos(bytes, cols, r, cols))
                 /\ b.vert_borders[r * (cols + 1) + cols + 1] \in {"Wall", "None"}
            /\ \A c \in 0..(cols - 1) :
                 /\ b.horz_borders[rows * cols + c + 1]
                       = EdgeBit(bytes, CellPos(bytes, cols, rows, 0) + c)
                 /\ b.horz_borders[rows * cols + c + 1] \in {"Wall", "None"}

\* a 2x2 board was decoded whose four cells carry different border fields,
\* with a Wall after the first row only and under the second column only
C24_Witness ==
    /\ codec.phase = "done"
    /\ codec.result.kind = "Ok"
    /\ codec.result.board.rows = 2
    /\ codec.result.board.cols = 2
    /\ codec.result.board.horz_borders = <<"None", "Window", "Wall", "Window", "None", "Wall">>
    /\ codec.result.board.vert_borders = <<"Wall", "None", "Wall", "Wall", "Window", "None">>

(***************************************************************************)
(* Loading a level from a code (src/src/main.rs, src/src/engine/level.rs)  *)
(***************************************************************************)
\* payloads of playable boards: 1x1 boards holding each valid piece, 1x2
\* boards holding two pieces, an empty 1x1 board
LevelPayloads ==
    {<<1, 17, 2 + 8 * piece, 0>> : piece \in 0..12}
    \cup {<<1, 18, 2 + 8 * a, 1 + 4 * b, 0>> : a \in {0, 5, 10}, b \in {2, 3, 12}}
    \cup {<<1, 17, 0>>}

\* the codes given on the command line or held by the campaign data
LevelCodes ==
    {SignaturePrefix \o Base64Encode(payload, 1) : payload \in LevelPayloads}
    \cup {SignaturePrefix \o <<"A", "Q", "=", "=">>, <<"P", "B", "C", "1", ":">>}

\* the Board the decoder returns: its four vectors are the grids' cells
BoardFromVectors(b) ==
    [dims |-> Dimensions(b.rows, b.cols),
     tiles |-> [dims |-> Dimensions(b.rows, b.cols), cells |-> b.tiles],
     horz_borders |-> [dims |-> Dimensions(b.rows + 1, b.cols), cells |-> b.horz_borders],
     vert_borders |-> [dims |-> Dimensions(b.rows, b.cols + 1), cells |-> b.vert_borders],
     pieces |-> [dims |-> Dimensions(b.rows, b.cols), cells |-> b.pieces]]

\* finish_init / LevelCampaign::from_static, then start_level: the board that
\* Board::from_pbc1 returned goes into Level::new as it is
StartLevel ==
    /\ codec.phase = "done"
    /\ codec.result.kind = "Ok"
    /\ board' = BoardFromVectors(codec.result.board)
    /\ before' = board'
    /\ moveSet' = GridSetNew(board'.dims.rows, board'.dims.cols)
    /\ progress' = LevelProgressNew(board')
    /\ observed' = [call |-> "new", piece |-> "None", before |-> progress']
    /\ op' = "new"
    /\ codec' = [codec EXCEPT !.phase = "level"]
    /\ level' = LevelNew(board')
    /\ UNCHANGED <<leader, allowed, direction, moves, solver, support, beams>>

\* setup_board: Level::spawn hands every manipulator to spawn_beam_group,
\* which unwraps the cached target of each active emitter direction
SetupBoard ==
    /\ codec.phase = "level"
    /\ beams' = [call |-> "spawn_beams",
                 targets |-> {<<c, IterTargets(MapGet(board.pieces, c))>> :
                                 c \in ManipulatorCoords(board)}]
    /\ codec' = [codec EXCEPT !.phase = "spawned"]
    /\ UNCHANGED <<board, apiVars, solver, support, progress, observed, level>>

NextLoad ==
    \/ \E code \in LevelCodes : FromPbc1(code)
    \/ CheckSignature
    \/ DecodeBase64
    \/ ReadVersion
    \/ ReadBoard
    \/ StartLevel
    \/ SetupBoard

SpecLoad == InitWith({BoardNew(1, 1)}) /\ [][NextLoad]_vars

\* C25: every board obtained from Board::from_pbc1 has had retarget_beams
\* run before any code reads a manipulator's cached targets: the spawn step
\* never sees an active emitter direction without a cached target
C25_TargetsCachedBeforeRead ==
    beams.call = "spawn_beams" =>
        \A seen \in beams.targets :
            \A i \in 1..Len(seen[2]) : seen[2][i] # NoTarget

(***************************************************************************)
(* Cycling the focus through the manipulators (src/src/model/board.rs,     *)
(* src/src/main.rs)                                                        *)
(***************************************************************************)
RECURSIVE NextScan(_, _, _)
\* Board::next_manipulator, lines 147-162: the while loop
NextScan(b, coords, remaining) ==
    IF remaining = 0 THEN NoCoords
    ELSE LET next == IF coords[2] < b.dims.cols - 1
                     THEN <<coords[1], coords[2] + 1>>
                     ELSE <<IF coords[1] < b.dims.rows - 1 THEN coords[1] + 1 ELSE 0, 0>>
         IN  IF MapGet(b.pieces, next).kind = "Manipulator" THEN next
             ELSE NextScan(b, next, remaining - 1)

\* a forward scan that starts from the first cell when no coords are given
NextManipulatorFromOrigin(b, coords) ==
    NextScan(b, IF coords = NoCoords THEN <<0, 0>> ELSE coords,
             b.dims.rows * b.dims.cols)

\* Board::next_manipulator
NextManipulator(b, coords) ==
    NextScan(b,
             IF coords = NoCoords THEN <<b.dims.rows - 1, b.dims.cols - 1>> ELSE coords,
             b.dims.rows * b.dims.cols)

RECURSIVE PrevScanNoRowWrap(_, _, _)
\* a backward scan that stays in the first row instead of wrapping to the last
PrevScanNoRowWrap(b, coords, remaining) ==
    IF remaining = 0 THEN NoCoords
    ELSE LET prev == IF coords[2] > 0
                     THEN <<coords[1], coords[2] - 1>>
                     ELSE <<IF coords[1] > 0 THEN coords[1] - 1 ELSE 0, b.dims.cols - 1>>
         IN  IF MapGet(b.pieces, prev).kind = "Manipulator" THEN prev
             ELSE PrevScanNoRowWrap(b, prev, remaining - 1)

PrevManipulatorNoRowWrap(b, coords) ==
    PrevScanNoRowWrap(b, IF coords = NoCoords THEN <<0, 0>> ELSE coords,
                      b.dims.rows * b.dims.cols)

RECURSIVE PrevScan(_, _, _)
\* Board::prev_manipulator, lines 122-137: the while loop
PrevScan(b, coords, remaining) ==
    IF remaining = 0 THEN NoCoords
    ELSE LET prev == IF coords[2] > 0
                     THEN <<coords[1], coords[2] - 1>>
                     ELSE <<IF coords[1] > 0 THEN coords[1] - 1 ELSE b.dims.rows - 1,
                            b.dims.cols - 1>>
         IN  IF MapGet(b.pieces, prev).kind = "Manipulator" THEN prev
             ELSE PrevScan(b, prev, remaining - 1)

\* Board::prev_manipulator
PrevManipulator(b, coords) ==
    PrevScan(b, IF coords = NoCoords THEN <<0, 0>> ELSE coords,
             b.dims.rows * b.dims.cols)

\* Focus::Selected(coords, allowed moves) or Focus::None
FocusOn(coords) ==
    /\ leader' = coords
    /\ allowed' = IF coords = NoCoords THEN {} ELSE ComputeAllowedMoves(board, coords)

\* select_manipulator on SelectManipulatorEvent::Next
SelectNext ==
    /\ FocusOn(NextManipulator(board, leader))
    /\ op' = "next_manipulator"
    /\ UNCHANGED <<board, direction, moveSet, before, moves, solver, support, progress,
                   observed, beams, codec, level>>

\* select_manipulator on SelectManipulatorEvent::Previous
SelectPrevious ==
    /\ FocusOn(PrevManipulator(board, leader))
    /\ op' = "prev_manipulator"
    /\ UNCHANGED <<board, direction, moveSet, before, moves, solver, support, progress,
                   observed, beams, codec, level>>

\* select_manipulator on SelectManipulatorEvent::Deselect
Deselect ==
    /\ leader # NoCoords
    /\ FocusOn(NoCoords)
    /\ op' = "deselect"
    /\ UNCHANGED <<board, direction, moveSet, before, moves, solver, support, progress,
                   observed, beams, codec, level>>

\* boards with no, one and several manipulators
FocusBoards ==
    RingBoards \cup {RetargetBeams(b) : b \in SeedBoards \cup {SmokeBoard, DenseRing}}
    \cup {EmptyBoard(2, 2), EmptyBoard(1, 1),
          RetargetBeams(WithPieces(EmptyBoard(2, 2), << <<(<<0, 1>>), Manipulator("Down")>> >>)),
          RetargetBeams(WithPieces(EmptyBoard(1, 1), << <<(<<0, 0>>), Manipulator("Up")>> >>)),
          RetargetBeams(WithPieces(EmptyBoard(2, 3),
              << <<(<<0, 0>>), Manipulator("Right")>>,
                 <<(<<0, 2>>), Particle("Red")>>,
                 <<(<<1, 2>>), Manipulator("Left")>> >>))}

NextFocus ==
    \/ SelectNext
    \/ SelectPrevious
    \/ Deselect

SpecFocus == InitWith(FocusBoards) /\ [][NextFocus]_vars

\* the number of cells after coords, in wrap-around row-major order, up to
\* and including m; coords itself comes last, after a full turn
StepsAfter(b, coords, m) ==
    LET n == b.dims.rows * b.dims.cols
    IN  ((DimsIndex(b.dims, m) - DimsIndex(b.dims, coords) - 1 + n) % n) + 1

\* the manipulator nearest after coords in wrap-around row-major order, the
\* row-major-first manipulator when there are no coords
NearestAfter(b, coords) ==
    LET ms == ManipulatorCoords(b)
    IN  IF ms = {} THEN NoCoords
        ELSE IF coords = NoCoords
        THEN CHOOSE m \in ms : \A o \in ms : DimsIndex(b.dims, m) <= DimsIndex(b.dims, o)
        ELSE CHOOSE m \in ms : \A o \in ms : StepsAfter(b, coords, m) <= StepsAfter(b, coords, o)

RECURSIVE NextTimes(_, _, _)
\* the coordinates reached from coords by k calls of next_manipulator
NextTimes(b, coords, k) ==
    IF k = 0 THEN coords ELSE NextTimes(b, NextManipulator(b, coords), k - 1)

\* C26: next_manipulator(Some(c)) is the nearest manipulator strictly after c
\* in wrap-around row-major order (c itself when it is the only one),
\* next_manipulator(None) the row-major-first manipulator, the result is None
\* only when the board has no manipulator, and repeated calls visit every
\* manipulator exactly once before returning to the start
C26_NextManipulator ==
    LET ms == ManipulatorCoords(board)
        count == Cardinality(ms)
    IN  /\ \A c \in DimsCells(board.dims) \cup {NoCoords} :
             /\ NextManipulator(board, c) = NearestAfter(board, c)
             /\ NextManipulator(board, c) = NoCoords <=> ms = {}
             /\ (c # NoCoords /\ ms # {} /\ NextManipulator(board, c) = c) => ms = {c}
        /\ \A m \in ms :
             /\ {NextTimes(board, m, k) : k \in 1..count} = ms
             /\ NextTimes(board, m, count) = m
        /\ op = "next_manipulator" => leader \in ms \cup {NoCoords}

\* the focus has stepped forward to the row-major-last of the four
\* manipulators of a board
C26_Witness ==
    /\ op = "next_manipulator"
    /\ Cardinality(ManipulatorCoords(board)) = 4
    /\ leader # NoCoords
    /\ \A m \in ManipulatorCoords(board) :
          DimsIndex(board.dims, leader) >= DimsIndex(board.dims, m)
    /\ allowed # {}

\* C27: prev_manipulator is the exact inverse of next_manipulator on
\* manipulator coordinates, and prev_manipulator(None) is the
\* row-major-last manipulator
C27_PrevInvertsNext ==
    LET ms == ManipulatorCoords(board)
    IN  /\ \A m \in ms :
             /\ PrevManipulator(board, NextManipulator(board, m)) = m
             /\ NextManipulator(board, PrevManipulator(board, m)) = m
        /\ ms # {} =>
             /\ PrevManipulator(board, NoCoords) \in ms
             /\ \A m \in ms : DimsIndex(board.dims, m)
                                <= DimsIndex(board.dims, PrevManipulator(board, NoCoords))
        /\ ms = {} => PrevManipulator(board, NoCoords) = NoCoords
        /\ op = "prev_manipulator" => leader \in ms \cup {NoCoords}

\* the focus has stepped backward to a manipulator in a later row whose
\* successor lies in the first row, on a board with at least three
\* manipulators
C27_Witness ==
    /\ op = "prev_manipulator"
    /\ Cardinality(ManipulatorCoords(board)) >= 3
    /\ leader # NoCoords
    /\ leader[1] >= 1
    /\ NextManipulator(board, leader)[1] = 0
    /\ leader = PrevManipulator(board, NextManipulator(board, leader))

\* the gathered graph cut down to the coordinates in S, counts as gathered
GraphOf(gathered, S) ==
    [gathered EXCEPT !.cells = [i \in DOMAIN gathered.cells |->
                                   IF DimsCoords(gathered.dims, i - 1) \in S
                                   THEN gathered.cells[i] ELSE NoRef]]

\* the beams that end on a piece: pairs of a manipulator's coordinates and the
\* piece its beam targets
BeamLinks ==
    {link \in ManipulatorCoords(board) \X DimsCells(board.dims) :
        \E d \in EmitterDirections(MapGet(board.pieces, link[1]).emitters) :
            MapGet(board.pieces, link[1]).targets[d] = BeamTargetPiece(link[2])}

\* every member of S passes the legality test against S and keeps a positive
\* reference count once each beam from a gathered node outside S is taken off
Stable(gathered, nodes, links, S) ==
    LET graph == GraphOf(gathered, S)
    IN  \A m \in S :
            /\ ~ShouldPrune(board, graph, m, direction)
            /\ MapGet(gathered, m)
                  - Cardinality({link \in links : link[2] = m /\ link[1] \in nodes \ S}) > 0

RECURSIVE PruneScanDescending(_, _, _, _, _)
\* a pruning pass that scans the cells from the last index down to the first
PruneScanDescending(b, graph, drag_direction, idx, pruned) ==
    IF idx < 0 THEN [graph |-> graph, pruned |-> pruned]
    ELSE LET coords == DimsCoords(graph.dims, idx)
             ref_count == MapGet(graph, coords)
         IN  IF ref_count = NoRef
             THEN PruneScanDescending(b, graph, drag_direction, idx - 1, pruned)
             ELSE IF ref_count = 0 \/ ShouldPrune(b, graph, coords, drag_direction)
             THEN LET removed == MapSet(graph, coords, NoRef)
                      manipulator == GetManipulator(b, coords)
                  IN  PruneScanDescending(b,
                          IF manipulator.kind = "Manipulator"
                          THEN ReleaseTargets(IterTargets(manipulator), 1, removed)
                          ELSE removed,
                          drag_direction, idx - 1, TRUE)
             ELSE PruneScanDescending(b, graph, drag_direction, idx - 1, pruned)

RECURSIVE PruneDescending(_, _, _)
\* passes in descending order, repeated until one removes nothing
PruneDescending(b, graph, drag_direction) ==
    LET pass == PruneScanDescending(b, graph, drag_direction,
                                    graph.dims.rows * graph.dims.cols - 1, FALSE)
    IN  IF ~pass.pruned THEN pass.graph
        ELSE PruneDescending(b, pass.graph, drag_direction)

\* C28: the set left by drag is the unique largest subset S of the gathered
\* graph in which every member passes the drag-direction legality test
\* evaluated against S and still holds a positive reference count after the
\* decrements caused by the removed nodes, and it does not depend on the
\* order in which a pruning pass scans the nodes
C28_LargestStableSubset ==
    op = "drag" =>
        LET gathered == MoveSolverNew(board, leader).graph
            nodes == {c \in DimsCells(board.dims) : MapGet(gathered, c) # NoRef}
            links == BeamLinks
            members == Members
            descending == PruneDescending(board, gathered, direction)
        IN  /\ members \subseteq nodes
            /\ Stable(gathered, nodes, links, members)
            /\ \A S \in SUBSET nodes : Stable(gathered, nodes, links, S) => S \subseteq members
            /\ members = {c \in DimsCells(board.dims) : MapGet(descending, c) # NoRef}

\* a drag whose pruning took away part of the gathered graph and left a move
\* set of several pieces, a node having lost a reference and kept another
C28_Witness ==
    /\ op = "drag"
    /\ Cardinality(Members) >= 2
    /\ Members # Gathered
    /\ \E link \in BeamLinks :
          link[1] \in Gathered \ Members /\ link[2] \in Members

\* a gathered node left out of the move set although its reference count
\* stayed positive: one reference is left after every beam of a removed
\* gathered manipulator is taken off, so the node was not removed for a
\* count of zero
RemovedWithReferences ==
    LET gathered == MoveSolverNew(board, leader).graph
        removed == {c \in DimsCells(board.dims) : MapGet(gathered, c) # NoRef} \ Members
        links == BeamLinks
    IN  {m \in removed :
            MapGet(gathered, m)
               - Cardinality({link \in links : link[2] = m /\ link[1] \in removed}) > 0}

\* no neighbor in the direction, a particle whose destination tile has
\* another tint or that sits on a Collector, or a destination cell occupied
\* by a piece outside the graph
OtherwiseBlocked(m) ==
    LET n == Neighbor(board, m, direction)
    IN  \/ n = NoCoords
        \/ TintBlocked(board, m, direction)
        \/ Collected(board, m)
        \/ IF n = NoCoords THEN FALSE
           ELSE MapGet(board.pieces, n).kind # "None" /\ n \notin Members

\* C29 as stated: in a pruning pass a node whose reference count is non-zero
\* is removed only if a Wall is in its border slot in the drag direction, it
\* has no neighbor in that direction, it is a particle with a destination-tint
\* mismatch or on a Collector, or its destination cell is occupied by a piece
\* outside the graph
C29_RemovedOnlyIfWalled ==
    op = "drag" =>
        \A m \in RemovedWithReferences :
            GetBorder(board, m, direction) = "Wall" \/ OtherwiseBlocked(m)

\* C29 amended: a node whose reference count is non-zero is removed only if
\* a Wall or a Window is in its border slot in the drag direction, or one of
\* the other three conditions holds
C29_RemovedOnlyIfBlocked ==
    op = "drag" =>
        \A m \in RemovedWithReferences :
            GetBorder(board, m, direction) \in {"Wall", "Window"} \/ OtherwiseBlocked(m)

\* a leader under a Window, free to move otherwise, is left out of the move
\* set while its own reference is still counted
C29_Witness ==
    /\ op = "drag"
    /\ leader \in RemovedWithReferences
    /\ GetBorder(board, leader, direction) = "Window"
    /\ ~OtherwiseBlocked(leader)

\* the board-level operations on the seed boards' variants and on the board
\* of movement::tests::smoke_test
SpecSmoke == InitWith(InitBoards \cup {RetargetBeams(DragSmokeBoard)}) /\ [][Next]_vars

\* C30: a piece with a Window in its border slot in the drag direction is
\* never in the move-set for that direction, although the Window lets a beam
\* pass on to the next piece
C30_WindowBlocksMovement ==
    /\ op = "drag" =>
          \A c \in Members : GetBorder(board, c, direction) # "Window"
    /\ \A c \in ManipulatorCoords(board) :
          \A d \in EmitterDirections(MapGet(board.pieces, c).emitters) :
              (GetBorder(board, c, d) = "Window" /\ Neighbor(board, c, d) # NoCoords)
                  => MapGet(board.pieces, c).targets[d] # BeamTargetBorder(ToBorderCoords(c, d))

\* movement::tests::smoke_test: dragging the leader (2,2) Up, the manipulator
\* (3,4) under the Window is gathered, its beam reaches the particle (2,4)
\* through the Window, and both stay behind
C30_Witness ==
    /\ op = "drag"
    /\ board = RetargetBeams(DragSmokeBoard)
    /\ leader = <<2, 2>>
    /\ direction = "Up"
    /\ GetBorder(board, <<3, 4>>, "Up") = "Window"
    /\ MapGet(board.pieces, <<3, 4>>).targets["Up"] = BeamTargetPiece(<<2, 4>>)
    /\ {<<3, 4>>, <<2, 4>>} \subseteq Gathered
    /\ Members = {<<1, 1>>, <<1, 2>>, <<2, 1>>, <<2, 2>>, <<3, 1>>, <<3, 2>>}

(***************************************************************************)
(* A piece reached from the leader along two beam paths                    *)
(***************************************************************************)
\* the leader (1,0) beams Right to (1,2) and Down to (3,0), both of which beam
\* to (3,2), which beams Right to the particle (3,3); a Window lies over (3,2)
DiamondBoard ==
    [WithPieces(EmptyBoard(4, 4),
        << <<(<<1, 0>>), Manipulator("RightDown")>>,
           <<(<<1, 2>>), Manipulator("Down")>>,
           <<(<<3, 0>>), Manipulator("Right")>>,
           <<(<<3, 2>>), Manipulator("Right")>>,
           <<(<<3, 3>>), Particle("Green")>> >>)
     EXCEPT !.horz_borders = MapSet(@, <<3, 2>>, "Window")]

DiamondBoards == {RetargetBeams(v) : v \in Variants(DiamondBoard)}

SpecDiamond == InitWith(DiamondBoards) /\ [][Next]_vars

\* C31: every member of a move-set other than the leader is the Piece-kind
\* beam target of at least one manipulator that is also in the move-set
C31_MembersAreHeld ==
    op = "drag" =>
        LET members == Members
            links == BeamLinks
        IN  \A m \in members \ {leader} :
                \E link \in links : link[2] = m /\ link[1] \in members

\* C32: after gather the reference count of every graph node equals the
\* number of Piece-kind beam links from manipulators in the graph that target
\* it, plus one for the leader's initial reference
C32_CountsAreLinks ==
    op \in {"select", "drag"} =>
        LET gathered == MoveSolverNew(board, leader).graph
            nodes == {c \in DimsCells(board.dims) : MapGet(gathered, c) # NoRef}
            links == BeamLinks
        IN  \A m \in nodes :
                MapGet(gathered, m)
                    = Cardinality({link \in links : link[2] = m /\ link[1] \in nodes})
                      + (IF m = leader THEN 1 ELSE 0)

(***************************************************************************)
(* Boards on which the number of beam paths to a piece grows large         *)
(***************************************************************************)
\* a board filled with RightDown manipulators: every manipulator holds its
\* right and its lower neighbor
BlockBoard(rows, cols) ==
    [EmptyBoard(rows, cols) EXCEPT
        !.pieces = GridMapNew(rows, cols, Manipulator("RightDown"))]

\* a 7x7 board whose top row is empty: Right, Down and RightDown manipulators
\* ("" is an empty cell) laid out so that 256 beam paths lead from (1,0) to
\* (6,6); a Window lies over (6,5), the left holder of (6,6)
WrapRows ==
    << <<"RightDown", "RightDown", "RightDown", "RightDown", "RightDown", "RightDown", "RightDown">>,
       <<"RightDown", "RightDown", "RightDown", "RightDown", "RightDown", "RightDown", "">>,
       <<"RightDown", "Right", "RightDown", "RightDown", "RightDown", "RightDown", "">>,
       <<"RightDown", "Down", "RightDown", "RightDown", "RightDown", "RightDown", "RightDown">>,
       <<"Right", "Right", "", "", "RightDown", "RightDown", "RightDown">>,
       <<"", "Right", "RightDown", "Down", "Right", "RightDown", "RightDown">> >>

WrapBoard ==
    [EmptyBoard(7, 7) EXCEPT
        !.pieces = [@ EXCEPT !.cells =
            [i \in 1..49 |->
                LET r == (i - 1) \div 7
                    c == (i - 1) % 7
                IN  IF r = 0 \/ WrapRows[r][c + 1] = "" THEN NoPiece
                    ELSE Manipulator(WrapRows[r][c + 1])]],
        !.horz_borders = MapSet(@, <<6, 5>>, "Window")]

PathBoards ==
    {RetargetBeams(BlockBoard(6, 7)), RetargetBeams(BlockBoard(2, 2)),
     RetargetBeams(WrapBoard)}

SpecPaths == InitWith(PathBoards) /\ [][Next]_vars

RECURSIVE Visits(_, _, _, _)
RECURSIVE VisitsTargets(_, _, _, _, _)
\* the number of times gather is entered at each cell, as a natural number:
\* counts[i] is 0 for a cell gather never enters
Visits(b, coords, counts, onPath) ==
    LET seen == counts[DimsIndex(b.dims, coords) + 1]
        piece == MapGet(b.pieces, coords)
    IN  IF seen >= 0 /\ (coords \in onPath \/ piece.kind # "Manipulator")
        THEN [counts EXCEPT ![DimsIndex(b.dims, coords) + 1] = seen + 1]
        ELSE VisitsTargets(b, IterTargets(piece), 1,
                           [counts EXCEPT ![DimsIndex(b.dims, coords) + 1] = seen + 1],
                           onPath \cup {coords})

VisitsTargets(b, targets, i, counts, onPath) ==
    IF i > Len(targets) THEN counts
    ELSE VisitsTargets(b, targets, i + 1,
             IF targets[i].kind = "Piece"
             THEN Visits(b, targets[i].coords, counts, onPath)
             ELSE counts,
             onPath)

\* C34: no reference count produced by gather exceeds 255, also on boards
\* densely filled with two-emitter manipulators: the u8 increment never
\* overflows
C34_CountsFitU8 ==
    op \in {"select", "drag"} =>
        LET visits == Visits(board, leader,
                             [i \in 1..(board.dims.rows * board.dims.cols) |-> 0], {})
        IN  \A i \in DOMAIN visits : visits[i] <= 255

\* C33: pruning never decrements a reference count below zero: a node still in
\* the graph has lost no more references than gather counted for it (one is
\* lost for every removed manipulator that holds it)
C33_NoUnderflow ==
    op = "drag" =>
        LET gathered == MoveSolverNew(board, leader).graph
            members == Members
            links == BeamLinks
        IN  \A m \in members :
                Cardinality({link \in links :
                    /\ link[2] = m
                    /\ MapGet(gathered, link[1]) # NoRef
                    /\ link[1] \notin members})
                  <= MapGet(gathered, m)

(***************************************************************************)
(* The on-path set of gather, followed call by call                        *)
(***************************************************************************)
\* the coordinates of the active gather frames, outermost first
FrameCoords == [k \in 1..Len(solver.stack) |-> solver.stack[k].coords]

\* the on-path set holds exactly the coordinates of the active frames, no two
\* frames share a coordinate, and there are no more frames than pieces
OnPathIsFrames ==
    solver.phase = "gather" =>
        /\ solver.visited.dims = board.dims
        /\ SetCoords(solver.visited) = {FrameCoords[k] : k \in 1..Len(solver.stack)}
        /\ Cardinality(SetCoords(solver.visited)) = Len(solver.stack)
        /\ Len(solver.stack)
              <= Cardinality({c \in DimsCells(board.dims) : MapGet(board.pieces, c).kind # "None"})
        /\ Len(solver.stack) <= board.dims.rows * board.dims.cols

\* a call of gather on an on-path node counts the visit and opens no frame, and
\* a call that opens a frame is on a node that was not on the path
OnPathNotReentered ==
    (solver.phase = "gather" /\ solver'.phase = "gather"
        /\ solver'.graph # solver.graph) =>
        LET top == solver.stack[Len(solver.stack)]
            coords == top.targets[top.i].coords
        IN  /\ MapGet(solver'.graph, coords)
                 = (IF MapGet(solver.graph, coords) = NoRef THEN 1
                    ELSE MapGet(solver.graph, coords) + 1)
            /\ IF SetContains(solver.visited, coords)
               THEN /\ Len(solver'.stack) = Len(solver.stack)
                    /\ solver'.visited = solver.visited
               ELSE /\ Len(solver'.stack) = Len(solver.stack) + 1
                    /\ solver'.stack[Len(solver'.stack)].coords = coords

\* C35: during gather the on-path set is exactly the set of coordinates of the
\* active recursion frames, so the depth never exceeds the number of pieces;
\* an on-path node is counted but not re-entered; and the on-path set is empty
\* again when the top-level gather has returned
C35_OnPathIsActiveFrames ==
    /\ [](OnPathIsFrames)
    /\ [][OnPathNotReentered]_vars
    /\ [](solver.phase = "gathered" => solver.visited.bits = {} /\ solver.stack = <<>>)

\* gather(leader) has returned after a call on an on-path node
C35_Witness ==
    /\ solver.phase = "gathered"
    /\ solver.onPathHits = 1
    /\ Cardinality({i \in 1..Len(solver.graph.cells) : solver.graph.cells[i] # NoRef}) >= 3

(***************************************************************************)
(* The game loop around the engine Level (src/src/engine/level.rs,         *)
(* src/src/main.rs): select, move, the end of the movement animation, the  *)
(* end of the fade-out animation, undo and reset                           *)
(***************************************************************************)
RECURSIVE SeedQueue(_, _, _, _)
\* unsupported_pieces, the for loop: every piece is marked unsupported and the
\* pieces on a tile are queued
SeedQueue(b, idx, unsupported, q) ==
    IF idx >= b.dims.rows * b.dims.cols
    THEN [unsupported |-> unsupported, queue |-> q, panic |-> FALSE]
    ELSE LET coords == DimsCoords(b.dims, idx)
         IN  IF MapGet(b.pieces, coords).kind = "None"
             THEN SeedQueue(b, idx + 1, unsupported, q)
             ELSE IF MapGet(b.tiles, coords).kind = "None"
             THEN SeedQueue(b, idx + 1, SetInsert(unsupported, coords), q)
             ELSE LET pushed == QueuePush(q, coords)
                  IN  IF pushed.panic
                      THEN [unsupported |-> unsupported, queue |-> q, panic |-> TRUE]
                      ELSE SeedQueue(b, idx + 1, SetInsert(unsupported, coords),
                                     pushed.queue)

RECURSIVE DrainQueue(_, _, _)
\* unsupported_pieces, the while loop
DrainQueue(b, unsupported, q) ==
    IF q.pop_idx = NoIndex THEN [unsupported |-> unsupported, panic |-> FALSE]
    ELSE LET popped == QueuePop(q)
             left == SetRemove(unsupported, popped.result)
             piece == MapGet(b.pieces, popped.result)
             pushed == IF piece.kind = "Manipulator"
                       THEN PushTargets(IterTargets(piece), 1, left, popped.queue)
                       ELSE [queue |-> popped.queue, panic |-> FALSE]
         IN  IF pushed.panic THEN [unsupported |-> left, panic |-> TRUE]
             ELSE DrainQueue(b, left, pushed.queue)

\* unsupported_pieces: the returned GridSet, or the panic of GridQueue::push
UnsupportedPieces(b) ==
    LET seeded == SeedQueue(b, 0, GridSetNew(b.dims.rows, b.dims.cols),
                            QueueForGrid(b.dims))
    IN  IF seeded.panic THEN [unsupported |-> seeded.unsupported, panic |-> TRUE]
        ELSE DrainQueue(b, seeded.unsupported, seeded.queue)

\* a prepare_move that leaves the cached targets of future as they were
LevelPrepareMoveNoRetarget(l, present, move_set, d) ==
    [l EXCEPT !.past = Append(@, present),
              !.future = MovePieces(@, move_set, d).board,
              !.call = "prepare_move"]

\* Level::prepare_move
LevelPrepareMove(l, present, move_set, d) ==
    [l EXCEPT !.past = Append(@, present),
              !.future = RetargetBeams(MovePieces(@, move_set, d).board),
              !.call = "prepare_move"]

\* a move_piece that reports no collection
CollectMovedNothing(p, present, dims, order, i, d) == p

RECURSIVE CollectMoved(_, _, _, _, _, _)
\* Level::move_piece for every piece of the move set, in for_each order: a
\* particle that the present board shows on a Collector at its destination is
\* reported collected
CollectMoved(p, present, dims, order, i, d) ==
    IF i > Len(order) THEN p
    ELSE LET to_coords == Neighbor(present, DimsCoords(dims, order[i]), d)
         IN  CollectMoved(
                 IF /\ MapGet(present.pieces, to_coords).kind = "Particle"
                    /\ MapGet(present.tiles, to_coords).kind = "Collector"
                 THEN ParticleCollected(p)
                 ELSE p,
                 present, dims, order, i + 1, d)

\* a remove_pieces that stops after the first piece
LevelRemovePiecesFirst(st, dims, order, i) ==
    IF Len(order) = 0 THEN st
    ELSE LET coords == DimsCoords(dims, order[1])
             piece == MapGet(st.present.pieces, coords)
         IN  [present |-> RemovePiece(st.present, coords),
              future |-> RemovePiece(st.future, coords),
              progress |-> PieceLost(st.progress, piece),
              lost |-> st.lost + (IF piece.kind = "Particle" THEN 1 ELSE 0)]

RECURSIVE LevelRemovePieces(_, _, _, _)
\* Level::remove_pieces: remove_piece for every member in ascending order:
\* piece_lost, then the removal from present and from future
LevelRemovePieces(st, dims, order, i) ==
    IF i > Len(order) THEN st
    ELSE LET coords == DimsCoords(dims, order[i])
             piece == MapGet(st.present.pieces, coords)
         IN  LevelRemovePieces(
                 [present |-> RemovePiece(st.present, coords),
                  future |-> RemovePiece(st.future, coords),
                  progress |-> PieceLost(st.progress, piece),
                  lost |-> st.lost + (IF piece.kind = "Particle" THEN 1 ELSE 0)],
                 dims, order, i + 1)

\* a truncate that keeps the newest boards instead of the oldest
TruncateNewest(seq, n) ==
    IF Len(seq) <= n THEN seq ELSE SubSeq(seq, Len(seq) - n + 1, Len(seq))

\* Vec::truncate
Truncate(seq, n) == IF Len(seq) <= n THEN seq ELSE SubSeq(seq, 1, n)

\* the focus is busy with an animation
Busy == op \in {"busy_move", "busy_fade"}

\* GameState::Playing: check_game_over has seen no outcome
Playing == progress.outcome = NoOutcome /\ ~progress.overflow /\ op # "panic"

\* select_manipulator: focus a manipulator of the present board
LevelSelect(c) ==
    /\ Playing /\ ~Busy
    /\ c \in ManipulatorCoords(board)
    /\ c # leader
    /\ leader' = c
    /\ allowed' = ComputeAllowedMoves(board, c)
    /\ op' = "select"
    /\ level' = [level EXCEPT !.call = "select"]
    /\ UNCHANGED <<board, direction, moveSet, before, moves, solver, support, progress,
                   observed, beams, codec>>

\* move_manipulator for an allowed direction of the selection:
\* compute_move_set on the present board, then Level::prepare_move
MoveManipulator(d) ==
    /\ Playing /\ op = "select"
    /\ d \in allowed
    /\ Len(level.past) <= MaxMoves
    /\ LET move_set == ComputeMoveSet(board, leader, d)
       IN  /\ moveSet' = move_set
           /\ level' = LevelPrepareMove(level, board, move_set, d)
           /\ op' = IF MovePieces(level.future, move_set, d).panic THEN "panic"
                    ELSE "busy_move"
    /\ direction' = d
    /\ before' = board
    /\ UNCHANGED <<board, leader, allowed, moves, solver, support, progress, observed,
                   beams, codec>>

\* finish_animation, Animation::Movement: update_present, move_piece for every
\* moved piece, then the fade-out of the unsupported pieces or the new focus
FinishMovement ==
    /\ Playing /\ op = "busy_move"
    /\ LET present == level.future
           focus_coords == Neighbor(present, leader, direction)
           unsupported == UnsupportedPieces(present)
       IN  /\ board' = present
           /\ progress' = CollectMoved(progress, present, moveSet.dims,
                                       ForEachOrder(moveSet, direction), 1, direction)
           /\ leader' = focus_coords
           /\ IF unsupported.panic
              THEN /\ op' = "panic"
                   /\ allowed' = {}
                   /\ level' = [level EXCEPT !.call = "movement"]
              ELSE IF SetIsEmpty(unsupported.unsupported)
              THEN /\ op' = "select"
                   /\ allowed' = ComputeAllowedMoves(present, focus_coords)
                   /\ level' = [level EXCEPT !.call = "movement"]
              ELSE /\ op' = "busy_fade"
                   /\ allowed' = {}
                   /\ level' = [level EXCEPT !.call = "movement",
                                             !.fade = unsupported.unsupported]
    /\ UNCHANGED <<direction, moveSet, before, moves, solver, support, observed, beams,
                   codec>>

\* finish_animation, Animation::FadeOut: update_present, remove_pieces, then
\* the focus stays on the leader unless the leader was removed
FinishFadeOut ==
    /\ Playing /\ op = "busy_fade"
    /\ LET st == LevelRemovePieces(
                     [present |-> level.future, future |-> level.future,
                      progress |-> progress, lost |-> level.lost],
                     level.fade.dims, ForEachAscending(level.fade, "Up"), 1)
           kept == ~SetContains(level.fade, leader)
       IN  /\ board' = st.present
           /\ progress' = st.progress
           /\ level' = [level EXCEPT !.future = st.future, !.lost = st.lost,
                                     !.call = "fade_out"]
           /\ leader' = IF kept THEN leader ELSE NoCoords
           /\ op' = IF kept THEN "select" ELSE "new"
           /\ allowed' = IF kept THEN ComputeAllowedMoves(st.present, leader) ELSE {}
    /\ UNCHANGED <<direction, moveSet, before, moves, solver, support, observed, beams,
                   codec>>

\* Level::undo, then Level::spawn with its new, empty focus
LevelUndoFrom(past, call) ==
    /\ IF past # <<>>
       THEN /\ board' = past[Len(past)]
            /\ level' = [level EXCEPT !.future = past[Len(past)],
                                      !.past = SubSeq(past, 1, Len(past) - 1),
                                      !.fade = GridSetNew(board.dims.rows, board.dims.cols),
                                      !.lost = 0,
                                      !.call = call]
            /\ progress' = LevelProgressNew(past[Len(past)])
       ELSE /\ level' = [level EXCEPT !.past = past, !.call = call]
            /\ UNCHANGED <<board, progress>>
    /\ leader' = NoCoords
    /\ allowed' = {}
    /\ op' = "new"
    /\ direction' = "Up"
    /\ moveSet' = GridSetNew(board.dims.rows, board.dims.cols)
    /\ before' = board
    /\ UNCHANGED <<moves, solver, support, observed, beams, codec>>

\* undo_moves, UndoMoves::Last: from the side panel while playing and not
\* busy, or from the game-over screen
LevelUndo ==
    /\ op # "panic" /\ ~progress.overflow
    /\ IF progress.outcome = NoOutcome THEN ~Busy ELSE progress.outcome # "Victory"
    /\ LevelUndoFrom(level.past, "undo")

\* undo_moves, UndoMoves::All: Level::reset is truncate(1), then undo
LevelReset ==
    /\ op # "panic" /\ ~progress.overflow
    /\ progress.outcome = NoOutcome => ~Busy
    /\ LevelUndoFrom(Truncate(level.past, 1), "reset")

NextGame ==
    \/ \E c \in DimsCells(board.dims) : LevelSelect(c)
    \/ \E d \in DirectionSet : MoveManipulator(d)
    \/ FinishMovement
    \/ FinishFadeOut
    \/ LevelUndo
    \/ LevelReset

\* a level with holes: the top row has no tile; a manipulator holding a Green
\* particle two steps from a Green Collector, a Red particle resting on a
\* White Collector, and a second manipulator
GameBoard ==
    WithPieces([BoardNew(3, 4) EXCEPT
                    !.tiles = PlaceAll(@,
                        << <<(<<1, 0>>), Tile("Platform", "White")>>,
                           <<(<<1, 1>>), Tile("Platform", "White")>>,
                           <<(<<1, 2>>), Tile("Platform", "White")>>,
                           <<(<<1, 3>>), Tile("Collector", "Green")>>,
                           <<(<<2, 0>>), Tile("Collector", "White")>>,
                           <<(<<2, 1>>), Tile("Platform", "White")>>,
                           <<(<<2, 2>>), Tile("Platform", "White")>>,
                           <<(<<2, 3>>), Tile("Platform", "White")>> >>, 1)],
        << <<(<<1, 0>>), Manipulator("Right")>>,
           <<(<<1, 1>>), Particle("Green")>>,
           <<(<<2, 0>>), Particle("Red")>>,
           <<(<<2, 3>>), Manipulator("Up")>> >>)

\* the level, every level that differs from it in one White or Green tile, and every level
\* that has another piece on one of two cells next to the train
GameBoards ==
    {RetargetBeams(v) : v \in
        {GameBoard}
        \cup {[GameBoard EXCEPT !.tiles = MapSet(@, c, t)] :
                c \in DimsCells(GameBoard.dims),
                t \in {x \in TileChoices : x.tint # "Red"} \cup {NoTile}}
        \cup {[GameBoard EXCEPT !.pieces = MapSet(@, c, p)] :
                c \in {<<1, 2>>, <<2, 1>>}, p \in PieceChoices}}

SpecGame == InitWith(GameBoards) /\ [][NextGame]_vars

\* C36: one support pass suffices: once the pieces that unsupported_pieces
\* returned on a board with fresh beams have been removed (the fade-out after
\* a move), unsupported_pieces returns the empty set, with or without a
\* retarget_beams in between
C36_OnePassSuffices ==
    level.call = "fade_out" =>
        LET again == UnsupportedPieces(board)
            fresh == UnsupportedPieces(RetargetBeams(board))
        IN  /\ ~again.panic /\ SetIsEmpty(again.unsupported)
            /\ ~fresh.panic /\ SetIsEmpty(fresh.unsupported)

\* a fade-out has removed two or more pieces and left a piece on the board
C36_Witness ==
    /\ level.call = "fade_out"
    /\ Cardinality(PieceCoords(level.past[Len(level.past)]))
          >= Cardinality(PieceCoords(board)) + 2
    /\ PieceCoords(board) # {}

\* every Piece-kind cached target of b names a cell that holds a piece
NoDanglingTarget(b) ==
    \A c \in ManipulatorCoords(b) : PieceTargets(b, c) \subseteq PieceCoords(b)

\* C37: in the game loop the solver always sees valid beams: after
\* prepare_move and update_present the cached targets of the present board
\* are those of a fresh retarget, and after the unsupported pieces have been
\* removed from present and future without retarget_beams the cached targets
\* of both are still those of a fresh retarget, none pointing at a removed
\* piece
C37_SolverSeesFreshBeams ==
    /\ level.call = "movement" => FreshBeams(board) /\ board = level.future
    /\ level.call = "fade_out" =>
          /\ FreshBeams(board) /\ NoDanglingTarget(board)
          /\ FreshBeams(level.future) /\ NoDanglingTarget(level.future)
    /\ op = "select" => FreshBeams(board) /\ board = level.future

\* a fade-out has removed a piece and a remaining manipulator holds a piece
C37_Witness ==
    /\ level.call = "fade_out"
    /\ Cardinality(PieceCoords(level.past[Len(level.past)]))
          > Cardinality(PieceCoords(board))
    /\ \E c \in ManipulatorCoords(board) : PieceTargets(board, c) # {}

\* the particles of b that do not rest on a Collector
FreeParticles(b) ==
    {c \in PieceCoords(b) :
        MapGet(b.pieces, c).kind = "Particle" /\ MapGet(b.tiles, c).kind # "Collector"}

\* the particles of b that rest on a Collector
CollectedParticles(b) ==
    {c \in PieceCoords(b) :
        MapGet(b.pieces, c).kind = "Particle" /\ MapGet(b.tiles, c).kind = "Collector"}

\* the counters of the progress are those of the present board
CountersMatchBoard ==
    op # "panic" =>
        /\ ~progress.overflow
        /\ progress.manipulators_left = Cardinality(ManipulatorCoords(board))
        /\ progress.uncollected_particles
              = Cardinality(FreeParticles(board)) + level.lost

\* a step of play, other than an undo or a reset, leaves every collected
\* particle where it is
CollectedStay ==
    level'.call \notin {"undo", "reset"} =>
        \A c \in CollectedParticles(board) :
            MapGet(board'.pieces, c) = MapGet(board.pieces, c)

\* C38: in any play sequence manipulators_left is the number of manipulators
\* on the present board and uncollected_particles is the number of particles
\* not on a Collector plus the particles lost so far; neither counter
\* underflows, a collected particle is never moved or removed again, and
\* Victory is reached only when no particle has been lost
C38_CountersFollowBoard ==
    /\ [](CountersMatchBoard)
    /\ [][CollectedStay]_vars
    /\ [](progress.outcome = "Victory" => level.lost = 0)

\* Victory after a move that collected the last free particle, in a level
\* that has lost a manipulator on the way
C38_Witness ==
    /\ progress.outcome = "Victory"
    /\ level.call = "movement"
    /\ Cardinality(ManipulatorCoords(board))
          < Cardinality(ManipulatorCoords(level.initial))

\* the progress is LevelProgress::new of the present board: the counters of
\* the board and no outcome
ProgressRecomputed(p, b) ==
    /\ p.outcome = NoOutcome
    /\ ~p.overflow
    /\ p.manipulators_left = Cardinality(ManipulatorCoords(b))
    /\ p.uncollected_particles = Cardinality(FreeParticles(b))

\* an undo with a history restores present and future to the board before the
\* last move (`before`, when the undo follows the end of that move), drops one
\* board of the history, ends at the initial board when the history empties,
\* and recomputes the progress
UndoRestores ==
    (level'.call = "undo" /\ level.past # <<>>) =>
        /\ level'.future = board'
        /\ Len(level'.past) = Len(level.past) - 1
        /\ level.call \in {"movement", "fade_out"} => board' = before
        /\ level'.past = <<>> => board' = level.initial
        /\ ProgressRecomputed(progress', board')

\* a reset with a history restores the initial board and empties the history
ResetRestores ==
    (level'.call = "reset" /\ level.past # <<>>) =>
        /\ board' = level.initial
        /\ level'.future = level.initial
        /\ level'.past = <<>>
        /\ ProgressRecomputed(progress', board')

\* undo and reset with an empty history change nothing
EmptyHistoryUnchanged ==
    (level'.call \in {"undo", "reset"} /\ level.past = <<>>) =>
        /\ board' = board
        /\ level'.future = level.future
        /\ level'.past = <<>>
        /\ progress' = progress

\* C39: undo is the exact inverse of a completed move: it restores present and
\* future to the board before that move, fallen pieces included, and
\* recomputes the progress with no outcome; n undos after n moves, or one
\* reset, restore the initial board and empty the history; undo and reset with
\* an empty history change nothing
C39_UndoInvertsMove ==
    /\ [][UndoRestores]_vars
    /\ [][ResetRestores]_vars
    /\ [][EmptyHistoryUnchanged]_vars
    /\ [](level.past = <<>> => board = level.initial)

\* the last undo of a play has put back pieces that had fallen and has
\* emptied the history
C39_Witness ==
    /\ level.call = "undo"
    /\ level.past = <<>>
    /\ Cardinality(PieceCoords(before)) < Cardinality(PieceCoords(board))

====
